---- MODULE Spec2Model ----
(***************************************************************************)
(* Model of ShellManager (shell-manager.ts): the interactive session       *)
(* buffer and the completion-detection poll of the SSH/PTY MCP server.     *)
(*                                                                         *)
(* Text is a sequence of character tokens.  Printable characters are the   *)
(* one-character strings; control characters are the named tokens LF, CR,  *)
(* ESC, BEL.  Times are milliseconds (Date.now()).                         *)
(***************************************************************************)
EXTENDS Integers, Sequences, FiniteSets, TLC

LF  == "LF"
CR  == "CR"
ESC == "ESC"
BEL == "BEL"
\* The control bytes of sendSignal: \x03, \x1a, \x1c
ETX == "ETX"
SUB == "SUB"
FS  == "FS"

\* [\x00-\x1f] restricted to the alphabet of the model
ControlChars == {LF, CR, ESC, BEL}
\* \s after the control characters are gone
Whitespace == {" "}
\* [a-zA-Z] and [0-9;] restricted to the alphabet of the model
Letters ==
  {"a", "b", "c", "d", "e", "g", "h", "i", "k", "l", "m", "n", "o", "p", "r", "s", "t", "u", "w", "D"}
DigitsSemi == {"0", "1", ";"}
\* [$#>]
PromptEnd == {"$", "#", ">"}

(***************************************************************************)
(* String helpers (JavaScript String / Array methods).                     *)
(***************************************************************************)

\* Array.prototype.slice(start) for start >= 0
SliceFrom(xs, start) == SubSeq(xs, start + 1, Len(xs))

\* Array.prototype.slice(-n) for n >= 1
SliceLast(xs, n) == IF Len(xs) <= n THEN xs ELSE SubSeq(xs, Len(xs) - n + 1, Len(xs))

\* Array.prototype.slice(start, end): negative indices count from the end
Slice(xs, start, end) ==
  LET n == Len(xs)
      from == IF start < 0 THEN (IF n + start < 0 THEN 0 ELSE n + start)
              ELSE (IF start > n THEN n ELSE start)
      to == IF end < 0 THEN (IF n + end < 0 THEN 0 ELSE n + end)
            ELSE (IF end > n THEN n ELSE end)
  IN SubSeq(xs, from + 1, to)

\* A split that drops the empty segments
RECURSIVE SplitLFDropEmpty(_)
SplitLFDropEmpty(s) ==
  IF \A k \in 1..Len(s) : s[k] # LF
    THEN <<s>>
    ELSE LET j == CHOOSE k \in 1..Len(s) : s[k] = LF /\ \A m \in 1..(k - 1) : s[m] # LF
             rest == SplitLFDropEmpty(SubSeq(s, j + 1, Len(s)))
         IN <<SubSeq(s, 1, j - 1)>> \o (IF rest = <<<<>>>> THEN <<>> ELSE rest)

RECURSIVE SplitLF(_)
\* String.prototype.split("\n"): always at least one segment
SplitLF(s) ==
  IF \A k \in 1..Len(s) : s[k] # LF
    THEN <<s>>
    ELSE LET j == CHOOSE k \in 1..Len(s) : s[k] = LF /\ \A m \in 1..(k - 1) : s[m] # LF
         IN <<SubSeq(s, 1, j - 1)>> \o SplitLF(SubSeq(s, j + 1, Len(s)))

RECURSIVE JoinLF(_)
\* Array.prototype.join("\n")
JoinLF(xs) ==
  IF Len(xs) = 0 THEN <<>>
  ELSE IF Len(xs) = 1 THEN xs[1]
  ELSE xs[1] \o <<LF>> \o JoinLF(Tail(xs))

\* lastLine.slice(lastLine.lastIndexOf("\r") + 1), unchanged when there is no \r
AfterLastCR(s) ==
  IF \A k \in 1..Len(s) : s[k] # CR
    THEN s
    ELSE LET j == CHOOSE k \in 1..Len(s) : s[k] = CR /\ \A m \in (k + 1)..Len(s) : s[m] # CR
         IN SubSeq(s, j + 1, Len(s))

RECURSIVE RTrim(_)
RTrim(s) == IF Len(s) > 0 /\ s[Len(s)] \in Whitespace THEN RTrim(SubSeq(s, 1, Len(s) - 1)) ELSE s

RECURSIVE LTrim(_)
LTrim(s) == IF Len(s) > 0 /\ s[1] \in Whitespace THEN LTrim(Tail(s)) ELSE s

\* String.prototype.trim()
Trim(s) == LTrim(RTrim(s))

\* Index of the first position >= i of s whose character is not in cls (Len(s)+1 if none)
RECURSIVE SkipClass(_, _, _)
SkipClass(s, i, cls) == IF i <= Len(s) /\ s[i] \in cls THEN SkipClass(s, i + 1, cls) ELSE i

\* Index of the first position >= i of s whose character is c (Len(s)+1 if none)
RECURSIVE FindChar(_, _, _)
FindChar(s, i, c) == IF i <= Len(s) /\ s[i] # c THEN FindChar(s, i + 1, c) ELSE i

RECURSIVE StripCSI(_)
\* .replace(/\x1b\[[0-9;]*[a-zA-Z]/g, "")
StripCSI(s) ==
  IF Len(s) = 0 THEN <<>>
  ELSE IF s[1] = ESC /\ Len(s) >= 2 /\ s[2] = "["
       THEN LET j == SkipClass(s, 3, DigitsSemi)
            IN IF j <= Len(s) /\ s[j] \in Letters
                 THEN StripCSI(SubSeq(s, j + 1, Len(s)))
                 ELSE <<s[1]>> \o StripCSI(Tail(s))
       ELSE <<s[1]>> \o StripCSI(Tail(s))

RECURSIVE StripOSCBel(_)
\* .replace(/\x1b\][^\x07]*\x07/g, "")
StripOSCBel(s) ==
  IF Len(s) = 0 THEN <<>>
  ELSE IF s[1] = ESC /\ Len(s) >= 2 /\ s[2] = "]"
       THEN LET j == FindChar(s, 3, BEL)
            IN IF j <= Len(s)
                 THEN StripOSCBel(SubSeq(s, j + 1, Len(s)))
                 ELSE <<s[1]>> \o StripOSCBel(Tail(s))
       ELSE <<s[1]>> \o StripOSCBel(Tail(s))

RECURSIVE StripOSCST(_)
\* .replace(/\x1b\][^\x1b]*\x1b\\/g, "")
StripOSCST(s) ==
  IF Len(s) = 0 THEN <<>>
  ELSE IF s[1] = ESC /\ Len(s) >= 2 /\ s[2] = "]"
       THEN LET j == FindChar(s, 3, ESC)
            IN IF j + 1 <= Len(s) /\ s[j + 1] = "\\"
                 THEN StripOSCST(SubSeq(s, j + 2, Len(s)))
                 ELSE <<s[1]>> \o StripOSCST(Tail(s))
       ELSE <<s[1]>> \o StripOSCST(Tail(s))

\* .replace(/[\x00-\x1f]/g, "")
StripControl(s) == SelectSeq(s, LAMBDA c : c \notin ControlChars)

\* cleanLine of detectPrompt
CleanLine(line) == Trim(StripControl(StripOSCST(StripOSCBel(StripCSI(line)))))

\* /X\s*$/ for a character class X
EndsWith(s, cls) == LET t == RTrim(s) IN Len(t) > 0 /\ t[Len(t)] \in cls

\* s without its trailing /X\s*$/ match, where EndsWith(s, cls) holds
DropEnd(s) == LET t == RTrim(s) IN SubSeq(t, 1, Len(t) - 1)

\* The pattern rules of detectPrompt, in the order of the source
PatDollar(s)     == EndsWith(s, {"$"})
PatHash(s)       == EndsWith(s, {"#"})
PatGreater(s)    == EndsWith(s, {">"})
PatBracketUsr(s) == EndsWith(s, {"$"}) /\ LET t == RTrim(s) IN Len(t) >= 2 /\ t[Len(t) - 1] = "]"
PatBracketRoot(s) == EndsWith(s, {"#"}) /\ LET t == RTrim(s) IN Len(t) >= 2 /\ t[Len(t) - 1] = "]"
PatParen(s)      == EndsWith(s, PromptEnd) /\ EndsWith(DropEnd(s), {")"})
PatTilde(s)      == EndsWith(s, PromptEnd) /\ EndsWith(DropEnd(s), {"~"})
PatUserHost(s)   ==
  /\ EndsWith(s, PromptEnd)
  /\ EndsWith(DropEnd(s), {":"})
  /\ \E k \in 1..Len(DropEnd(DropEnd(s))) : s[k] = "@"
PatArrow(s)      == Len(s) >= 2 /\ s[1] = "ARROW" /\ s[2] \in Whitespace
PatHeavyGt(s)    == EndsWith(s, {"HEAVY_GT"})
PatLambda(s)     == EndsWith(s, {"LAMBDA"})
PatPercent(s)    == Trim(s) = <<"%">>

\* A classifier that asks for every rule to match (patterns.every)
detectPromptEvery(line) ==
  LET cleanLine == CleanLine(line)
  IN IF cleanLine = <<>> THEN FALSE
     ELSE /\ PatDollar(cleanLine) /\ PatHash(cleanLine) /\ PatGreater(cleanLine)
          /\ PatBracketUsr(cleanLine) /\ PatBracketRoot(cleanLine)
          /\ PatParen(cleanLine) /\ PatTilde(cleanLine) /\ PatUserHost(cleanLine)
          /\ PatArrow(cleanLine) /\ PatHeavyGt(cleanLine) /\ PatLambda(cleanLine)
          /\ PatPercent(cleanLine)

\* ShellManager.detectPrompt
detectPrompt(line) ==
  LET cleanLine == CleanLine(line)
  IN IF cleanLine = <<>> THEN FALSE
     ELSE \/ PatDollar(cleanLine) \/ PatHash(cleanLine) \/ PatGreater(cleanLine)
          \/ PatBracketUsr(cleanLine) \/ PatBracketRoot(cleanLine)
          \/ PatParen(cleanLine) \/ PatTilde(cleanLine) \/ PatUserHost(cleanLine)
          \/ PatArrow(cleanLine) \/ PatHeavyGt(cleanLine) \/ PatLambda(cleanLine)
          \/ PatPercent(cleanLine)


(***************************************************************************)
(* Configuration.                                                          *)
(***************************************************************************)

DEFAULT_CONFIG ==
  [quickTimeout |-> 2000, maxTimeout |-> 5000, maxLines |-> 200, maxBufferLines |-> 10000]

\* { ...base, ...over } for a Partial<ShellConfig> over
Merge(base, over) == [k \in DOMAIN base |-> IF k \in DOMAIN over THEN over[k] ELSE base[k]]

\* setInterval period of waitForCompletion
PollInterval == 100
\* thresholds of strategies A/B and D
PromptStableTicks == 2
WaitStableTicks == 5
WaitSilenceMs == 500
WaitMinElapsedMs == 1000
\* read(): the number of lines returned when `lines` is not given
DefaultReadLines == 20

(***************************************************************************)
(* Bounds of the model.                                                    *)
(***************************************************************************)

\* maxBufferLines handed to the constructor
BufCap == 3
\* maxLines handed to send() as the per-call override
LineCap == 2
\* number of data events the channel emits
MaxData == 2
\* number of send() calls
MaxSends == 1
\* number of control bytes sendSignal() writes
MaxWrites == 1
\* the clock stops after this many poll intervals
MaxTicks == 13

MaxTime == MaxTicks * PollInterval

\* at most this many ssh2 Clients are created
MaxClients == 2
\* at most this many replaced streams wait for their close event
MaxOldChannels == 2
\* the lines handed to the prompt classifier have at most this many characters
MaxLineLen == 3

\* new ShellManager(config): the constructor's Partial<ShellConfig>
CtorConfigs == {[maxBufferLines |-> BufCap]}

\* send(input, config): the per-call Partial<ShellConfig>
SendOverrides ==
  {[quickTimeout |-> 300, maxTimeout |-> 1200, maxLines |-> LineCap, maxBufferLines |-> BufCap + 1]}

\* The text of line number n of the channel's output
TagChars == <<"a", "h", "i", "m">>
Tag(n) == TagChars[((n - 1) % Len(TagChars)) + 1]

\* The chunks the n-th data event may carry
Chunks(n) ==
  { <<Tag(n), LF>>,
    <<Tag(n), LF, "b", LF>>,
    <<Tag(n), LF, "$", " ">>,
    <<"$", CR, Tag(n)>> }

\* A data event that carries n whole lines at once
RECURSIVE Burst(_)
Burst(n) == IF n = 0 THEN <<>> ELSE Burst(n - 1) \o <<Tag(n), LF>>

\* read(lines, offset, clear): the arguments a caller passes; an optional
\* argument is <<>> when it is not given and <<v>> when it is v
ReadCounts == {<<>>, <<-1>>, <<0>>, <<1>>, <<2>>}
ReadOffsets == {<<>>, <<1>>}

\* sendSignal(signal): the three names of the signature and one that is not
SignalNames == {"SIGINT", "SIGTSTP", "SIGQUIT", "SIGKILL"}

\* send(input): the command line a caller submits
Input == <<"i">>

(***************************************************************************)
(* State.                                                                  *)
(***************************************************************************)

VARIABLES
  now,             \* Date.now()
  config,          \* this.config
  shell,           \* this.shell !== null
  channel,         \* the stream: "none", "open", "ending" (end() called), "errored", "lost", "closed"
  outputBuffer,    \* this.outputBuffer: the pending partial line
  outputLines,     \* this.outputLines: the completed lines
  lastOutputTime,  \* this.lastOutputTime
  nData,           \* number of data events so far
  arrived,         \* history: the lines completed since the buffer was last emptied
  polls,           \* one record per send(): the closure of waitForCompletion
  ingested,        \* history: the text received since the buffers were last reset
  written,         \* history: every string handed to shell.write(), in order
  ret,             \* the value returned by the call just made (NoCall once anything else happened)
  oldChannels,     \* the streams of earlier sessions that have not reported their close yet
  client,          \* SSHManager.client: 0 for null, else the number of the Client
  currentServer,   \* SSHManager.currentServer: <<>> for null, else <<config>>
  isConnected,     \* SSHManager.isConnected
  isLocalConnection, \* SSHManager.isLocalConnection
  clients,         \* one record per ssh2 Client created: its config and its state
  sensitiveValues  \* Sanitizer.sensitiveValues of the global sanitizer

\* The state of SSHManager, of the sanitizer and of the streams left behind
mgrVars == <<oldChannels, client, currentServer, isConnected, isLocalConnection, clients, sensitiveValues>>

vars == <<now, config, shell, channel, outputBuffer, outputLines, lastOutputTime, nData, arrived, polls,
          ingested, written, ret, oldChannels, client, currentServer, isConnected, isLocalConnection,
          clients, sensitiveValues>>

\* new SSHManager() and the first getSanitizer(): nothing connected, nothing registered
MgrInit ==
  /\ oldChannels = <<>>
  /\ client = 0
  /\ currentServer = <<>>
  /\ isConnected = FALSE
  /\ isLocalConnection = FALSE
  /\ clients = <<>>
  /\ sensitiveValues = <<>>

\* No synchronous call has returned since the session last moved
NoCall == [op |-> "none"]

\* `x || undefined` of buildResult
OrUndefined(b) == IF b THEN "true" ELSE "undefined"

\* ShellManager.buildResult
buildResult(output, totalLines, complete, truncated, slow, waiting) ==
  [ output     |-> output,
    totalLines |-> totalLines,
    complete   |-> complete,
    truncated  |-> OrUndefined(truncated),
    slow       |-> OrUndefined(slow),
    waiting    |-> OrUndefined(waiting),
    message    |-> IF complete THEN (IF slow THEN <<"completeSlow", totalLines>>
                                             ELSE <<"complete", totalLines>>)
                   ELSE IF truncated THEN <<"truncated", config.maxLines, totalLines>>
                   ELSE IF waiting THEN <<"waiting", totalLines>>
                   ELSE <<"lines", totalLines>> ]

Init ==
  /\ now = 0
  /\ config \in {Merge(DEFAULT_CONFIG, c) : c \in CtorConfigs}
  /\ shell = FALSE
  /\ channel = "none"
  /\ outputBuffer = <<>>
  /\ outputLines = <<>>
  /\ lastOutputTime = 0
  /\ nData = 0
  /\ arrived = <<>>
  /\ polls = <<>>
  /\ ingested = <<>>
  /\ written = <<>>
  /\ ret = NoCall
  /\ MgrInit

\* An interval that the close of the channel stops
TickDueWhileOpen(p) == p.timer /\ now >= p.nextTick /\ channel # "closed"

\* A tick of an active interval is due
TickDue(p) == p.timer /\ now >= p.nextTick

\* The clock is read by send() and by the interval callbacks only: it is
\* followed while a poll is running or a send() may still come
ClockObserved == Len(polls) < MaxSends \/ \E i \in DOMAIN polls : polls[i].timer

\* The clock can move on
CanAdvance ==
  /\ channel # "none"
  /\ ClockObserved
  /\ now + PollInterval <= MaxTime
  /\ \A i \in DOMAIN polls : ~TickDue(polls[i])

\* Time passes; a due timer callback runs before the clock moves on.  The clock
\* starts with the session: no time is measured before the first open.
Advance ==
  /\ CanAdvance
  /\ now' = now + PollInterval
  /\ UNCHANGED <<config, shell, channel, outputBuffer, outputLines, lastOutputTime, nData, arrived, polls,
                 ingested, written, ret>>
  /\ UNCHANGED mgrVars

\* this.shell = stream; this.setupStream(stream)
StoreStream ==
  /\ shell' = TRUE
  /\ channel' = "open"
  /\ outputBuffer' = <<>>
  /\ outputLines' = <<>>
  /\ lastOutputTime' = now
  /\ arrived' = <<>>
  /\ ingested' = <<>>
  /\ ret' = NoCall
  /\ UNCHANGED <<now, config, nData, polls, written>>

\* open() / openLocal(): the stream is stored and setupStream() runs
Open ==
  /\ channel = "none"
  /\ StoreStream
  /\ UNCHANGED mgrVars

\* A buffer cap that keeps the oldest lines instead of the newest
EvictNewest(lines) ==
  IF Len(lines) > config.maxBufferLines THEN SubSeq(lines, 1, config.maxBufferLines) ELSE lines

\* The buffer cap of the data handler
EvictOldest(lines) ==
  IF Len(lines) > config.maxBufferLines THEN SliceLast(lines, config.maxBufferLines) ELSE lines

\* The completed lines a chunk adds: all but the last split segment
CompletedBy(text) == LET segs == SplitLF(outputBuffer \o text) IN SubSeq(segs, 1, Len(segs) - 1)

\* The body of the data handler, whichever stream it is registered on
OnData(text) ==
  /\ LET segs == SplitLF(outputBuffer \o text)
     IN /\ outputBuffer' = segs[Len(segs)]
        /\ outputLines' = EvictOldest(outputLines \o SubSeq(segs, 1, Len(segs) - 1))
  /\ lastOutputTime' = now
  /\ nData' = nData + 1
  /\ arrived' = arrived \o CompletedBy(text)
  /\ polls' = [i \in DOMAIN polls |->
                 IF polls[i].timer
                   THEN [polls[i] EXCEPT !.appended = @ \o CompletedBy(text), !.sawByte = TRUE]
                   ELSE polls[i]]
  /\ ingested' = ingested \o text
  /\ ret' = NoCall
  /\ UNCHANGED <<now, config, shell, channel, written>>

\* stream.on("data", ...)
Data(text) ==
  /\ channel \in {"open", "ending"}
  /\ OnData(text)
  /\ UNCHANGED mgrVars

\* The caller's discipline: the tool handler awaits send() before it answers,
\* so a send() is issued only when no earlier poll is outstanding
CallerSerializes == \A i \in DOMAIN polls : ~polls[i].timer

\* A send() that keeps the pending partial line
PendingAfterSendKept == outputBuffer

\* send(): this.outputBuffer = ""
PendingAfterSend == <<>>

\* send(input, config) on an open shell, up to the call of waitForCompletion.
\* The last five fields of the poll record are history: the lines completed
\* since the submission, whether a clear touched the buffer, whether a byte
\* arrived since the previous tick, whether the channel closed meanwhile, and
\* the pending partial line that the submission found
send(over) ==
  /\ shell
  /\ LET mergedConfig == Merge(config, over)
     IN /\ now + mergedConfig.maxTimeout + PollInterval <= MaxTime
        /\ polls' = Append(polls,
             [ startLineCount |-> Len(outputLines),
               config         |-> mergedConfig,
               startTime      |-> now,
               lastCheckTime  |-> now,
               stableCount    |-> 0,
               timer          |-> TRUE,
               nextTick       |-> now + PollInterval,
               results        |-> <<>>,
               appended       |-> <<>>,
               cleared        |-> FALSE,
               sawByte        |-> FALSE,
               closedInFlight |-> FALSE,
               dropped        |-> outputBuffer ])
  /\ outputBuffer' = PendingAfterSend
  /\ ingested' = SubSeq(ingested, 1, Len(ingested) - Len(outputBuffer))
  /\ written' = Append(written, Input \o <<LF>>)
  /\ ret' = NoCall
  /\ UNCHANGED <<now, config, shell, channel, outputLines, lastOutputTime, nData, arrived>>
  /\ UNCHANGED mgrVars

\* send(input, config) by a caller that awaits each send()
Send(over) ==
  /\ Len(polls) < MaxSends
  /\ CallerSerializes
  /\ send(over)


(***************************************************************************)
(* waitForCompletion: one callback of the interval.                        *)
(***************************************************************************)

\* newLines of a tick
NewLines(p) == SliceFrom(outputLines, p.startLineCount)

\* A currentOutput that forgets the completed lines
CurrentOutputPendingOnly(newLines) == outputBuffer

\* currentOutput of a tick
CurrentOutput(newLines) ==
  JoinLF(newLines) \o (IF outputBuffer # <<>> THEN <<LF>> \o outputBuffer ELSE <<>>)

\* lastLine of a tick, cut after its last \r
LastVisibleLine(newLines) ==
  AfterLastCR(IF outputBuffer # <<>> THEN outputBuffer
              ELSE IF Len(newLines) > 0 THEN newLines[Len(newLines)] ELSE <<>>)

\* stableCount after the stability check of a tick
NextStableCount(p) == IF lastOutputTime <= p.lastCheckTime THEN p.stableCount + 1 ELSE 0

\* A callback that forgets clearInterval(check)
ClearIntervalForgotten(p) == p

\* clearInterval(check)
ClearInterval(p) == [p EXCEPT !.timer = FALSE]

\* A callback that calls resolve twice
ResolveTwice(p, result) == [p EXCEPT !.results = Append(Append(@, result), result)]

\* resolve(result): every call is recorded; the promise settles with the first
Resolve(p, result) == [p EXCEPT !.results = Append(@, result)]

\* A quick branch whose window excludes elapsed = quickTimeout
StrategyAStrict(elapsed, hasPrompt, stableCount, cfg) ==
  elapsed < cfg.quickTimeout /\ hasPrompt /\ stableCount >= PromptStableTicks

\* Strategy A: quick + prompt
StrategyA(elapsed, hasPrompt, stableCount, cfg) ==
  elapsed <= cfg.quickTimeout /\ hasPrompt /\ stableCount >= PromptStableTicks

\* Strategy B: slow + prompt
StrategyB(elapsed, hasPrompt, stableCount, cfg) ==
  /\ elapsed > cfg.quickTimeout
  /\ elapsed <= cfg.maxTimeout
  /\ hasPrompt
  /\ stableCount >= PromptStableTicks

\* A timeout branch that never matches
StrategyCNever(elapsed, cfg) == FALSE

\* Strategy C: timeout
StrategyC(elapsed, cfg) == elapsed > cfg.maxTimeout

\* A waiting branch that asks for a longer silence
StrategyDLongSilence(elapsed, timeSinceLastOutput, stableCount) ==
  /\ timeSinceLastOutput > WaitSilenceMs + PollInterval
  /\ stableCount >= WaitStableTicks
  /\ elapsed > WaitMinElapsedMs

\* A waiting branch that does not ask for silence
StrategyDNoSilence(elapsed, timeSinceLastOutput, stableCount) ==
  stableCount >= WaitStableTicks /\ elapsed > WaitMinElapsedMs

\* Strategy D: output stable, no prompt
StrategyD(elapsed, timeSinceLastOutput, stableCount) ==
  /\ timeSinceLastOutput > WaitSilenceMs
  /\ stableCount >= WaitStableTicks
  /\ elapsed > WaitMinElapsedMs

\* A fast-complete Result that carries the slow flag
ResultASlow(newLines) == buildResult(CurrentOutput(newLines), Len(newLines), TRUE, FALSE, TRUE, FALSE)

ResultA(newLines) == buildResult(CurrentOutput(newLines), Len(newLines), TRUE, FALSE, FALSE, FALSE)

\* A slow branch that forgets the slow flag
ResultBNotSlow(newLines) ==
  buildResult(CurrentOutput(newLines), Len(newLines), TRUE, FALSE, FALSE, FALSE)

ResultB(newLines) == buildResult(CurrentOutput(newLines), Len(newLines), TRUE, FALSE, TRUE, FALSE)

\* truncated of strategy C
IsTruncated(newLines, cfg) == Len(newLines) > cfg.maxLines

\* truncatedOutput of strategy C
TruncatedOutput(newLines, cfg) ==
  LET truncatedLines == IF IsTruncated(newLines, cfg)
                          THEN SliceLast(newLines, cfg.maxLines)
                          ELSE newLines
  IN JoinLF(truncatedLines) \o (IF outputBuffer # <<>> THEN <<LF>> \o outputBuffer ELSE <<>>)

\* A timeout branch that always reports an unfinished command
ResultCNeverComplete(newLines, hasPrompt, cfg) ==
  buildResult(TruncatedOutput(newLines, cfg), Len(newLines), FALSE,
              IsTruncated(newLines, cfg), TRUE, TRUE)

\* A timeout branch that sets waiting whatever the prompt
ResultCAlwaysWaiting(newLines, hasPrompt, cfg) ==
  buildResult(TruncatedOutput(newLines, cfg), Len(newLines), hasPrompt,
              IsTruncated(newLines, cfg), TRUE, TRUE)

ResultC(newLines, hasPrompt, cfg) ==
  buildResult(TruncatedOutput(newLines, cfg), Len(newLines), hasPrompt,
              IsTruncated(newLines, cfg), TRUE, ~hasPrompt)

ResultD(newLines) == buildResult(CurrentOutput(newLines), Len(newLines), FALSE, FALSE, FALSE, TRUE)

\* Poll i after the callback of its interval has run in the current state
AfterTick(i) ==
  LET p == polls[i]
      elapsed == now - p.startTime
      timeSinceLastOutput == now - lastOutputTime
      newLines == NewLines(p)
      hasPrompt == detectPrompt(LastVisibleLine(newLines))
      stableCount == NextStableCount(p)
      q == [p EXCEPT !.stableCount = stableCount,
                     !.lastCheckTime = now,
                     !.sawByte = FALSE,
                     !.nextTick = @ + PollInterval]
  IN IF StrategyA(elapsed, hasPrompt, stableCount, p.config)
       THEN Resolve(ClearInterval(q), ResultA(newLines))
     ELSE IF StrategyB(elapsed, hasPrompt, stableCount, p.config)
       THEN Resolve(ClearInterval(q), ResultB(newLines))
     ELSE IF StrategyC(elapsed, p.config)
       THEN Resolve(ClearInterval(q), ResultC(newLines, hasPrompt, p.config))
     ELSE IF StrategyD(elapsed, timeSinceLastOutput, stableCount)
       THEN Resolve(ClearInterval(q), ResultD(newLines))
     ELSE q

\* The callback of setInterval(..., 100) of poll i
Tick(i) ==
  /\ i \in DOMAIN polls
  /\ TickDue(polls[i])
  /\ polls' = [polls EXCEPT ![i] = AfterTick(i)]
  /\ UNCHANGED <<now, config, shell, channel, outputBuffer, outputLines, lastOutputTime, nData, arrived,
                 ingested, written, ret>>
  /\ UNCHANGED mgrVars

(***************************************************************************)
(* The other mutations of the session.                                     *)
(***************************************************************************)

\* read(lines, offset, clear = true): the buffers are dropped after the result
\* is built (a clear of empty buffers changes nothing and is left out)
ReadClear ==
  /\ outputLines # <<>> \/ outputBuffer # <<>>
  /\ outputLines' = <<>>
  /\ outputBuffer' = <<>>
  /\ arrived' = <<>>
  /\ polls' = [i \in DOMAIN polls |->
                 IF polls[i].timer THEN [polls[i] EXCEPT !.cleared = TRUE] ELSE polls[i]]
  /\ ingested' = <<>>
  /\ UNCHANGED <<now, config, shell, channel, lastOutputTime, nData, written, ret>>
  /\ UNCHANGED mgrVars

\* The body of close()
CloseShell ==
  /\ shell' = FALSE
  /\ channel' = IF shell THEN "ending" ELSE channel
  /\ outputLines' = <<>>
  /\ outputBuffer' = <<>>
  /\ arrived' = <<>>
  /\ polls' = [i \in DOMAIN polls |->
                 IF polls[i].timer THEN [polls[i] EXCEPT !.cleared = TRUE] ELSE polls[i]]
  /\ ingested' = <<>>
  /\ ret' = NoCall
  /\ UNCHANGED <<now, config, lastOutputTime, nData, written>>

\* close(): ends the stream when the shell is open; clears the buffers in any case
Close ==
  /\ shell \/ outputLines # <<>> \/ outputBuffer # <<>>
  /\ CloseShell
  /\ UNCHANGED mgrVars

\* stream.on("close", ...); "lost" is a stream whose connection is gone and
\* whose close event is still to come
ChannelClose ==
  /\ channel \in {"open", "ending", "errored", "lost"}
  /\ shell' = FALSE
  /\ channel' = "closed"
  /\ polls' = [i \in DOMAIN polls |->
                 IF polls[i].timer THEN [polls[i] EXCEPT !.closedInFlight = TRUE] ELSE polls[i]]
  /\ ret' = NoCall
  /\ UNCHANGED <<now, config, outputBuffer, outputLines, lastOutputTime, nData, arrived,
                 ingested, written>>
  /\ UNCHANGED mgrVars

\* stream.on("error", ...): the handler logs the message and nothing else
ChannelError ==
  /\ channel \in {"open", "ending"}
  /\ channel' = "errored"
  /\ ret' = NoCall
  /\ UNCHANGED <<now, config, shell, outputBuffer, outputLines, lastOutputTime, nData, arrived, polls,
                 ingested, written>>
  /\ UNCHANGED mgrVars

\* isOpen()
isOpen == shell

\* getBufferLineCount()
getBufferLineCount == Len(outputLines) + (IF outputBuffer # <<>> THEN 1 ELSE 0)

\* The result send() returns when this.shell is null
NotOpenResult ==
  [ output |-> <<>>, totalLines |-> 0, complete |-> FALSE,
    truncated |-> "undefined", slow |-> "undefined", waiting |-> "undefined",
    message |-> <<"notOpen">> ]

\* send(input, config) when no shell is open: the early return
SendNotOpen ==
  /\ ~shell
  /\ ret' = [op |-> "send", result |-> NotOpenResult]
  /\ UNCHANGED <<now, config, shell, channel, outputBuffer, outputLines, lastOutputTime, nData, arrived,
                 polls, ingested, written>>
  /\ UNCHANGED mgrVars

\* startIdx of read(): offset || 0
StartIdx(offset) == IF offset = <<>> THEN 0 ELSE offset[1]

\* An effectiveLines without the sentinel -1
EffectiveLinesNoSentinel(lines) == IF lines = <<>> THEN <<DefaultReadLines>> ELSE lines

\* effectiveLines of read(): <<>> stands for undefined
EffectiveLines(lines) ==
  IF lines = <<>> THEN <<DefaultReadLines>> ELSE IF lines = <<-1>> THEN <<>> ELSE lines

\* The truthiness of effectiveLines: undefined and 0 are falsy
Truthy(effectiveLines) == effectiveLines # <<>> /\ effectiveLines[1] # 0

\* A window end that is always the end of the buffer
EndIdxWhole(lines, offset) == Len(outputLines)

\* endIdx of read()
EndIdx(lines, offset) ==
  IF Truthy(EffectiveLines(lines))
    THEN StartIdx(offset) + EffectiveLines(lines)[1]
    ELSE Len(outputLines)

\* selectedLines of read()
SelectedLines(lines, offset) == Slice(outputLines, StartIdx(offset), EndIdx(lines, offset))

\* A read that appends the pending line whatever the window
IncludesPendingAlways(lines, offset) == outputBuffer # <<>>

\* read(): the test that appends the pending partial line
IncludesPending(lines, offset) ==
  /\ outputBuffer # <<>>
  /\ ~Truthy(EffectiveLines(lines)) \/ EndIdx(lines, offset) >= Len(outputLines)

\* A count that takes the pending line for a line even when it is empty
ReadTotalLinesPlusOne == Len(outputLines) + 1

\* totalLines of read()
ReadTotalLines == Len(outputLines) + (IF outputBuffer # <<>> THEN 1 ELSE 0)

\* The ShellResult read() builds
read(lines, offset) ==
  LET selectedLines == SelectedLines(lines, offset)
      joined == JoinLF(selectedLines)
  IN [ output     |-> IF IncludesPending(lines, offset)
                        THEN joined \o (IF joined # <<>> THEN <<LF>> ELSE <<>>) \o outputBuffer
                        ELSE joined,
       totalLines |-> ReadTotalLines,
       complete   |-> TRUE,
       truncated  |-> "undefined",
       slow       |-> "undefined",
       waiting    |-> "undefined",
       message    |-> <<"read", Len(selectedLines)>> ]

\* A clearing read that forgets the pending partial line
ClearedBufferKept(clear) == outputBuffer

\* A read that drops the pending partial line whatever clear says
ClearedBufferAlways(clear) == <<>>

\* outputBuffer after read(): emptied when clear is set
ClearedBuffer(clear) == IF clear THEN <<>> ELSE outputBuffer

\* read(lines, offset, clear)
Read(lines, offset, clear) ==
  /\ ret' = [op |-> "read", lines |-> lines, offset |-> offset, clear |-> clear,
             result |-> read(lines, offset)]
  /\ outputLines' = IF clear THEN <<>> ELSE outputLines
  /\ outputBuffer' = ClearedBuffer(clear)
  /\ arrived' = IF clear THEN <<>> ELSE arrived
  /\ ingested' = IF clear THEN <<>> ELSE ingested
  /\ polls' = [i \in DOMAIN polls |->
                 IF clear /\ polls[i].timer THEN [polls[i] EXCEPT !.cleared = TRUE] ELSE polls[i]]
  /\ UNCHANGED <<now, config, shell, channel, lastOutputTime, nData, written>>
  /\ UNCHANGED mgrVars

\* signalChars of sendSignal
signalChars == [SIGINT |-> ETX, SIGTSTP |-> SUB, SIGQUIT |-> FS]

\* A lookup that sends Ctrl+C for every name
SignalCharAny(signal) == <<ETX>>

\* signalChars[signal]: <<>> stands for undefined
SignalChar(signal) == IF signal \in DOMAIN signalChars THEN <<signalChars[signal]>> ELSE <<>>

\* sendSignal(signal)
sendSignal(signal) ==
  /\ IF shell /\ SignalChar(signal) # <<>>
       THEN /\ written' = Append(written, SignalChar(signal))
            /\ ret' = [op |-> "sendSignal", signal |-> signal, result |-> TRUE]
       ELSE /\ written' = written
            /\ ret' = [op |-> "sendSignal", signal |-> signal, result |-> FALSE]
  /\ UNCHANGED <<now, config, shell, channel, outputBuffer, outputLines, lastOutputTime, nData, arrived,
                 polls, ingested>>
  /\ UNCHANGED mgrVars

\* sendSignal(signal), as long as the channel has taken fewer than MaxWrites
\* writes
SendSignal(signal) ==
  /\ Len(written) < MaxWrites \/ ~shell \/ SignalChar(signal) = <<>>
  /\ sendSignal(signal)

Next ==
  \/ Advance
  \/ Open
  \/ \E text \in Chunks(nData + 1) : nData < MaxData /\ Data(text)
  \/ \E over \in SendOverrides : Send(over)
  \/ \E i \in 1..MaxSends : Tick(i)
  \/ ReadClear
  \/ Close
  \/ ChannelClose

Spec == Init /\ [][Next]_vars

(***************************************************************************)
(* The session surface with no command in flight: reads, signals, and the  *)
(* calls made while no shell is open.                                      *)
(***************************************************************************)

\* The chunks the n-th data event may carry, a burst longer than the default
\* read window among them
ApiChunks(n) ==
  { <<Tag(n), LF>>,
    <<Tag(n), LF, "$", " ">>,
    Burst(DefaultReadLines + 1) }

\* new ShellManager() as the connection manager builds it, or with a small cap
ApiInit ==
  /\ now = 0
  /\ config \in {Merge(DEFAULT_CONFIG, c) : c \in CtorConfigs} \cup {DEFAULT_CONFIG}
  /\ shell = FALSE
  /\ channel = "none"
  /\ outputBuffer = <<>>
  /\ outputLines = <<>>
  /\ lastOutputTime = 0
  /\ nData = 0
  /\ arrived = <<>>
  /\ polls = <<>>
  /\ ingested = <<>>
  /\ written = <<>>
  /\ ret = NoCall
  /\ MgrInit

ApiNext ==
  \/ Open
  \/ \E text \in ApiChunks(nData + 1) : nData < MaxData /\ Data(text)
  \/ \E lines \in ReadCounts, offset \in ReadOffsets, clear \in BOOLEAN : Read(lines, offset, clear)
  \/ \E signal \in SignalNames : SendSignal(signal)
  \/ SendNotOpen
  \/ Close
  \/ ChannelClose
  \/ ChannelError

ApiSpec == ApiInit /\ [][ApiNext]_vars


(***************************************************************************)
(* Properties.                                                             *)
(***************************************************************************)

\* This step is a callback of poll i's interval
TickStep(i) == polls[i].timer /\ polls'[i].nextTick # polls[i].nextTick

\* The tick-time quantities of section 4.3, read in the state the callback runs in
Elapsed(p) == now - p.startTime
SinceLastByte == now - lastOutputTime
PromptVisible(p) == detectPrompt(LastVisibleLine(NewLines(p)))

\* The poll has delivered its Result
Resolved(p) == p.results # <<>>

\* The elapsed time at the most recent tick of the poll
ElapsedAtLastTick(p) == p.lastCheckTime - p.startTime

\* C1: a poll delivers at most one Result, its interval is cancelled exactly
\* when the Result is delivered, and a delivered Result is never followed by
\* another tick or another Result of the same poll.
C1_ResolvesOnce ==
  /\ [](\A i \in DOMAIN polls : Len(polls[i].results) <= 1 /\ (polls[i].timer <=> ~Resolved(polls[i])))
  /\ [][\A i \in DOMAIN polls : Resolved(polls[i]) => polls'[i] = polls[i]]_vars

\* C1 witness: a poll has resolved and more lines have arrived since, with no
\* second Result
C1_Witness ==
  \E i \in DOMAIN polls :
    /\ Len(polls[i].results) = 1
    /\ ~polls[i].timer
    /\ Len(NewLines(polls[i])) > polls[i].results[1].totalLines

\* C2: a running poll is never stuck and never outlives its deadline: a timer
\* callback is due or the clock can still move, no tick with elapsed > maxTimeout
\* has left it running, and the clock never passes maxTimeout by more than one
\* poll interval before it resolves, whatever the channel emits
C2_AlwaysReturns ==
  \A i \in DOMAIN polls :
    polls[i].timer =>
      /\ ElapsedAtLastTick(polls[i]) <= polls[i].config.maxTimeout
      /\ Elapsed(polls[i]) < polls[i].config.maxTimeout + 2 * PollInterval
      /\ (\E j \in DOMAIN polls : TickDue(polls[j])) \/ CanAdvance

\* C2 witness: a poll resolved by a tick past maxTimeout while bytes were
\* still arriving in the last 500 ms
C2_Witness ==
  \E i \in DOMAIN polls :
    /\ Resolved(polls[i])
    /\ ElapsedAtLastTick(polls[i]) > polls[i].config.maxTimeout
    /\ polls[i].lastCheckTime - lastOutputTime <= WaitSilenceMs


\* The whole new output at a tick: the completed lines since the submission
\* window, then the pending partial line on a line of its own
AllNewOutput(p) ==
  JoinLF(SubSeq(outputLines, p.startLineCount + 1, Len(outputLines)))
    \o (IF outputBuffer = <<>> THEN <<>> ELSE <<LF>> \o outputBuffer)

\* The first (and settling) Result of poll i after this step
Delivered(i) == polls'[i].results[1]

\* This step resolves poll i: one Result, interval cancelled
ResolvesNow(i) == ~polls'[i].timer /\ Len(polls'[i].results) = 1

C5_TimeoutFlags ==
  [][\A i \in DOMAIN polls :
       (TickStep(i) /\ Elapsed(polls[i]) > polls[i].config.maxTimeout)
       => /\ ResolvesNow(i)
          /\ Delivered(i).complete = PromptVisible(polls[i])
          /\ (Delivered(i).waiting = "true") <=> ~PromptVisible(polls[i])
          /\ Delivered(i).waiting \in {"true", "undefined"}]_vars

\* C5 witness: a poll timed out with complete=true although the prompt had not
\* been stable for two ticks
C5_Witness ==
  \E i \in DOMAIN polls :
    /\ Resolved(polls[i])
    /\ ElapsedAtLastTick(polls[i]) > polls[i].config.maxTimeout
    /\ polls[i].results[1].complete
    /\ polls[i].results[1].waiting = "undefined"
    /\ polls[i].stableCount < 2


\* Number of lines of an output text
LineCount(out) == IF out = <<>> THEN 0 ELSE Len(SplitLF(out))

\* C6 (as claimed): a Result has truncated set exactly when it is a timeout
\* Result and the completed lines appended since submission plus the pending
\* partial line number more than the truncation cap
C6_TruncatedFlag ==
  [][\A i \in DOMAIN polls :
       (TickStep(i) /\ ResolvesNow(i))
       => ( (Delivered(i).truncated = "true")
            <=> ( /\ Elapsed(polls[i]) > polls[i].config.maxTimeout
                  /\ Len(polls[i].appended) + (IF outputBuffer = <<>> THEN 0 ELSE 1)
                       > polls[i].config.maxLines ) )]_vars

\* C7 (as claimed): the output of a timeout Result has at most cap lines
C7_TimeoutOutputCapped ==
  [][\A i \in DOMAIN polls :
       (TickStep(i) /\ Elapsed(polls[i]) > polls[i].config.maxTimeout)
       => LineCount(Delivered(i).output) <= polls[i].config.maxLines]_vars

\* C8: a tick that matches neither the prompt outcomes nor the timeout, with
\* more than 500 ms since the last byte, stableCount >= 5 and elapsed > 1000 ms
\* resolves the poll with waiting=true, complete=false and the whole new output
\* untruncated; and a tick with elapsed > 1000 ms, over 600 ms of silence after
\* some output and no prompt on the last visible line resolves it with
\* waiting=true and complete=false
C8_StabilizedWaiting ==
  [][\A i \in DOMAIN polls :
       /\ ( /\ TickStep(i)
            /\ Elapsed(polls[i]) <= polls[i].config.maxTimeout
            /\ ~(PromptVisible(polls[i]) /\ polls'[i].stableCount >= 2)
            /\ SinceLastByte > 500
            /\ polls'[i].stableCount >= 5
            /\ Elapsed(polls[i]) > 1000 )
          => /\ ResolvesNow(i)
             /\ Delivered(i).waiting = "true"
             /\ Delivered(i).complete = FALSE
             /\ Delivered(i).output = AllNewOutput(polls[i])
             /\ Delivered(i).truncated = "undefined"
       /\ ( /\ TickStep(i)
            /\ Elapsed(polls[i]) > 1000
            /\ SinceLastByte > 600
            /\ polls[i].appended # <<>>
            /\ ~PromptVisible(polls[i]) )
          => /\ ResolvesNow(i)
             /\ Delivered(i).waiting = "true"
             /\ Delivered(i).complete = FALSE]_vars

\* C8 witness: a poll resolved waiting before maxTimeout, after a burst of at
\* least two lines
C8_Witness ==
  \E i \in DOMAIN polls :
    /\ Resolved(polls[i])
    /\ polls[i].results[1].waiting = "true"
    /\ ~polls[i].results[1].complete
    /\ polls[i].results[1].totalLines >= 2
    /\ ElapsedAtLastTick(polls[i]) > 1000
    /\ ElapsedAtLastTick(polls[i]) <= polls[i].config.maxTimeout

\* C9 (as claimed): at every tick of a poll that no clear has touched, newLines
\* is the sequence of completed lines appended since the submission
C9_NewLinesExact ==
  [][\A i \in DOMAIN polls :
       (TickStep(i) /\ ~polls[i].cleared) => NewLines(polls[i]) = polls[i].appended]_vars

\* The n most recent elements of xs, in order
MostRecent(xs, n) ==
  LET m == IF Len(xs) < n THEN Len(xs) ELSE n
  IN [k \in 1..m |-> xs[Len(xs) - m + k]]

\* C10: the completed-line buffer never holds more than maxBufferLines lines,
\* and it holds the most recent maxBufferLines of the lines that arrived, in
\* arrival order
C10_BufferBounded ==
  /\ Len(outputLines) <= config.maxBufferLines
  /\ outputLines = MostRecent(arrived, config.maxBufferLines)

\* C10 witness: more lines arrived than the cap and the first of them, distinct
\* from the oldest line kept, was evicted
C10_Witness ==
  /\ Len(arrived) > config.maxBufferLines
  /\ Len(outputLines) = config.maxBufferLines
  /\ outputLines[1] = arrived[Len(arrived) - config.maxBufferLines + 1]
  /\ outputLines[1] # arrived[1]

\* C11 (as claimed): once maxBufferLines or more lines have been ingested,
\* getBufferLineCount() equals maxBufferLines, whether or not an unterminated
\* fragment is pending
C11_EvictionCount ==
  Len(arrived) >= config.maxBufferLines => getBufferLineCount = config.maxBufferLines

\* The completed lines, each followed by the terminator it was split at
RECURSIVE Terminated(_)
Terminated(xs) == IF xs = <<>> THEN <<>> ELSE xs[1] \o <<LF>> \o Terminated(Tail(xs))

\* C12: while nothing was evicted or cleared, the completed lines, each
\* followed by its line terminator, then the pending partial line, are the
\* concatenation of the chunks received; neither a completed line nor the
\* pending line contains a line terminator
C12_RoundTrip ==
  /\ \A k \in 1..Len(outputBuffer) : outputBuffer[k] # LF
  /\ \A j \in 1..Len(outputLines) : \A k \in 1..Len(outputLines[j]) : outputLines[j][k] # LF
  /\ Len(arrived) <= config.maxBufferLines => Terminated(outputLines) \o outputBuffer = ingested

\* C12 witness: two chunks were received, a line was assembled across the
\* chunk boundary, and a partial line is pending
C12_Witness ==
  /\ nData = 2
  /\ Len(arrived) <= config.maxBufferLines
  /\ outputLines # <<>>
  /\ \E k \in 1..Len(outputLines[1]) : outputLines[1][k] = CR
  /\ outputBuffer # <<>>

\* This step is a call of read(), sendSignal() or a send() on no shell: ret'
\* holds what it returned, and the unprimed variables are what it saw
ReadStep == ret'.op = "read"
SignalStep == ret'.op = "sendSignal"

\* A text with the pending partial line appended on a line of its own
WithPending(text) ==
  IF outputBuffer = <<>> THEN text
  ELSE text \o (IF text # <<>> THEN <<LF>> ELSE <<>>) \o outputBuffer

\* The accepted outputs of a read that returns the completed lines sel: with
\* or without the pending partial line
OutputsOf(sel) == {JoinLF(sel), WithPending(JoinLF(sel))}

\* C13 (as claimed): read() with neither count nor offset returns the most
\* recent 20 completed lines of the buffer
C13_DefaultMostRecent ==
  [][(ReadStep /\ ret'.lines = <<>> /\ ret'.offset = <<>>)
       => ret'.result.output \in OutputsOf(MostRecent(outputLines, DefaultReadLines))]_vars

\* The completed lines at indices offset .. min(offset + n, length) - 1
Window(offset, n) ==
  LET last == IF offset + n < Len(outputLines) THEN offset + n ELSE Len(outputLines)
  IN [k \in 1..(last - offset) |-> outputLines[offset + k]]

\* C14: read(-1, offset) returns the completed lines from index offset to the
\* end of the buffer, and read(n, offset) with n > 0 returns the lines at
\* indices offset .. min(offset + n, length) - 1, in buffer order
C14_ReadWindow ==
  [][ReadStep =>
       LET offset == StartIdx(ret'.offset)
       IN /\ ret'.lines = <<-1>> =>
               /\ ret'.result.output \in OutputsOf(Window(offset, Len(outputLines)))
               /\ ret'.result.message = <<"read", Len(Window(offset, Len(outputLines)))>>
          /\ (ret'.lines # <<>> /\ ret'.lines[1] > 0) =>
               /\ ret'.result.output \in OutputsOf(Window(offset, ret'.lines[1]))
               /\ ret'.result.message = <<"read", Len(Window(offset, ret'.lines[1]))>>]_vars

\* C14 witness: read(1, 1) returned the second of at least three completed lines
C14_Witness ==
  /\ ret.op = "read"
  /\ ret.lines = <<1>>
  /\ ret.offset = <<1>>
  /\ ~ret.clear
  /\ Len(outputLines) >= 3
  /\ ret.result.output = outputLines[2]
  /\ ret.result.message = <<"read", 1>>

\* The count a read asks for: 20 when it is not given
CountOf(lines) == IF lines = <<>> THEN DefaultReadLines ELSE lines[1]

FullContent == WithPending(JoinLF(outputLines))

\* C16: read(-1) returns the whole content; a read(-1) made right after a
\* non-clearing read(-1) returns the same content; a clearing read leaves the
\* completed lines and the pending line empty, and a read made right after
\* it returns empty output with a line count of 0
C16_ReadClearRead ==
  [][(ReadStep /\ ret'.lines = <<-1>> /\ ret'.offset = <<>>) =>
       /\ ret'.result.output = FullContent
       /\ (ret.op = "read" /\ ret.lines = <<-1>> /\ ret.offset = <<>> /\ ~ret.clear)
            => ret'.result.output = ret.result.output
       /\ (ret.op = "read" /\ ret.clear)
            => ret'.result.output = <<>> /\ ret'.result.totalLines = 0
       /\ ret'.clear => outputLines' = <<>> /\ outputBuffer' = <<>>]_vars

\* C16 witness: on a shell that is still open, after bytes arrived, a
\* non-clearing read(-1) returned empty content: a clearing read came before it
C16_Witness ==
  /\ ret.op = "read"
  /\ ret.lines = <<-1>>
  /\ ret.offset = <<>>
  /\ ~ret.clear
  /\ ret.result.output = <<>>
  /\ ret.result.totalLines = 0
  /\ shell
  /\ nData >= 1

\* C17: read() on empty buffers returns empty output, a line count of 0 and
\* zero lines read, for every count and offset
C17_ReadEmpty ==
  [][(ReadStep /\ outputLines = <<>> /\ outputBuffer = <<>>) =>
       /\ ret'.result.output = <<>>
       /\ ret'.result.totalLines = 0
       /\ ret'.result.message = <<"read", 0>>]_vars

\* C17 witness: read(2, 1) was answered on a session that never received a byte
C17_Witness ==
  /\ ret.op = "read"
  /\ ret.lines = <<2>>
  /\ ret.offset = <<1>>
  /\ nData = 0
  /\ ret.result.output = <<>>
  /\ ret.result.totalLines = 0

\* C18 (as claimed): a call made while no shell is open writes nothing;
\* send and read return complete=false, sendSignal returns false
C18_NotOpenFails ==
  [][(ret'.op # "none" /\ ~isOpen) =>
       /\ written' = written
       /\ ret'.op \in {"send", "read"} => ret'.result.complete = FALSE
       /\ ret'.op = "sendSignal" => ret'.result = FALSE]_vars

\* The control byte of each signal name
ByteOf(signal) ==
  CASE signal = "SIGINT" -> "ETX"
    [] signal = "SIGTSTP" -> "SUB"
    [] signal = "SIGQUIT" -> "FS"

\* C19: sendSignal on an open shell with one of the three names writes the
\* one byte of that name and returns true; on no shell, or for another name,
\* it returns false and writes nothing
C19_SignalByte ==
  [][SignalStep =>
       IF isOpen /\ ret'.signal \in {"SIGINT", "SIGTSTP", "SIGQUIT"}
         THEN /\ written' = Append(written, <<ByteOf(ret'.signal)>>)
              /\ ret'.result = TRUE
         ELSE /\ written' = written
              /\ ret'.result = FALSE]_vars

\* C19 witness: sendSignal("SIGQUIT") returned true and the one byte \x1c is
\* all that was written
C19_Witness ==
  /\ ret.op = "sendSignal"
  /\ ret.signal = "SIGQUIT"
  /\ ret.result = TRUE
  /\ written = << <<FS>> >>

\* C20 (as claimed): after a close event or an error event of the channel
\* isOpen() is false and nothing more is written
C20_ClosedAfterEvent ==
  /\ [](channel \in {"closed", "errored"} => ~isOpen)
  /\ [][(channel \in {"closed", "errored"}) => written' = written]_vars

\* The session ends in this step: by close(), or by the close or error event
\* of the channel
SessionEnds == channel' # channel /\ channel' \in {"ending", "closed", "errored"}

\* C21 (as claimed): when a session ends, by close() or by a close or error
\* event of the channel, its buffers are cleared: getBufferLineCount() is 0
\* and read(-1) returns empty output right afterwards, and close() on an open
\* shell ends the channel
C21_EndClearsBuffers ==
  /\ [][SessionEnds => getBufferLineCount' = 0 /\ read(<<-1>>, <<>>)'.output = <<>>]_vars
  /\ [][isOpen /\ ~isOpen' /\ outputLines' = <<>> /\ channel' # "closed" => channel' = "ending"]_vars

\* The channel reports its close in this step
ChannelCloses == channel' = "closed" /\ channel # "closed"

\* The close of the channel leaves a running poll running
PollSurvivesClose ==
  /\ [][ChannelCloses =>
         \A i \in DOMAIN polls : polls'[i].timer = polls[i].timer /\ polls'[i].results = polls[i].results]_vars
  /\ [][\A i \in DOMAIN polls :
         polls[i].closedInFlight /\ polls[i].timer /\ now' # now => now < polls[i].nextTick]_vars

\* C22 (as claimed): a poll in flight when the channel closes is not
\* cancelled, and it resolves at a tick with elapsed > maxTimeout and through
\* no other outcome
C22_TimeoutOnly ==
  /\ PollSurvivesClose
  /\ [][\A i \in DOMAIN polls :
         TickStep(i) /\ polls[i].closedInFlight /\ ResolvesNow(i)
           => Elapsed(polls[i]) > polls[i].config.maxTimeout]_vars

\* C22 (amended): a poll in flight when the channel closes is not cancelled:
\* its ticks go on and it resolves by whichever outcome a tick matches, a
\* prompt outcome or stabilized-waiting while elapsed <= maxTimeout, and the
\* timeout outcome at the first tick with elapsed > maxTimeout at the latest
C22_ResolvesByAnyOutcome ==
  /\ PollSurvivesClose
  /\ [][\A i \in DOMAIN polls :
         TickStep(i) /\ polls[i].closedInFlight
           => /\ Elapsed(polls[i]) > polls[i].config.maxTimeout => ResolvesNow(i)
              /\ ResolvesNow(i) /\ Elapsed(polls[i]) <= polls[i].config.maxTimeout
                   => \/ Delivered(i).complete /\ PromptVisible(polls[i])
                      \/ Delivered(i).waiting = "true" /\ SinceLastByte > WaitSilenceMs]_vars

\* C22 witness: the channel closed while the poll was running, and the poll
\* resolved stabilized-waiting before maxTimeout
C22_Witness ==
  \E i \in DOMAIN polls :
    /\ polls[i].closedInFlight
    /\ Resolved(polls[i])
    /\ polls[i].results[1].waiting = "true"
    /\ ~polls[i].results[1].complete
    /\ ElapsedAtLastTick(polls[i]) <= polls[i].config.maxTimeout

\* The smaller of two numbers
Min(a, b) == IF a <= b THEN a ELSE b

\* C23 (as claimed): the knobs given to one send() govern that call: while its
\* poll runs the completed-line buffer is evicted down to the call's
\* maxBufferLines, a truncated Result reports the call's truncation cap, the
\* timeout is the call's maxTimeout, and the session's own configuration is
\* the same afterwards
C23_OverridesGovern ==
  /\ [][\A i \in DOMAIN polls :
         polls[i].timer /\ nData' # nData /\ ~polls'[i].cleared
           => Len(outputLines') = Min(Len(outputLines) + Len(arrived') - Len(arrived),
                                      polls[i].config.maxBufferLines)]_vars
  /\ [][\A i \in DOMAIN polls :
         TickStep(i) /\ ResolvesNow(i)
           => /\ Delivered(i).truncated = "true"
                   => Delivered(i).message =
                        <<"truncated", polls[i].config.maxLines, Delivered(i).totalLines>>
              /\ Delivered(i).slow = "true" /\ ~Delivered(i).complete
                   => Elapsed(polls[i]) > polls[i].config.maxTimeout]_vars
  /\ [][config' = config]_vars

(***************************************************************************)
(* The echo scenario: a command is submitted on an open session and its    *)
(* output, hi, a line terminator and the prompt, arrives within 300 ms of  *)
(* the submission, in one data event or in several, and nothing follows.   *)
(* The timeouts are the defaults scaled to the clock's range.              *)
(***************************************************************************)

Hi == <<"h", "i">>
UserHostPrompt == <<"u", "s", "e", "r", "@", "h", "o", "s", "t", ":", "~", "$", " ">>
EchoOutput == Hi \o <<LF>> \o UserHostPrompt

\* The arrival window of the scenario
EchoWindowMs == 3 * PollInterval

\* The ends of the data events the output may be cut into
EchoCuts == {1, Len(Hi), Len(Hi) + 1, Len(Hi) + 6, Len(EchoOutput)}

EchoConfigs == {[quickTimeout |-> 700, maxTimeout |-> 1200]}

\* The whole output of the command has arrived
EchoArrived == Len(polls) > 0 /\ ingested = EchoOutput

\* The prompt of the login shell arrives before the command is submitted
EchoLoginPrompt ==
  /\ polls = <<>>
  /\ ingested = <<>>
  /\ Data(UserHostPrompt)

\* The next piece of the output arrives, within the window
EchoData ==
  /\ Len(polls) > 0
  /\ now - polls[1].startTime <= EchoWindowMs
  /\ \E c \in EchoCuts :
       /\ c > Len(ingested)
       /\ Data(SubSeq(EchoOutput, Len(ingested) + 1, c))

\* Time passes, but not past the window while a piece is outstanding
EchoAdvance ==
  /\ Len(polls) > 0 /\ ~EchoArrived => now + PollInterval - polls[1].startTime <= EchoWindowMs
  /\ Advance

EchoNext ==
  \/ Open
  \/ EchoLoginPrompt
  \/ \E over \in EchoConfigs : Send(over)
  \/ EchoData
  \/ EchoAdvance
  \/ \E i \in 1..MaxSends : Tick(i)

EchoSpec == Init /\ [][EchoNext]_vars

\* The text xs holds the text ys
Contains(xs, ys) == \E k \in 0..(Len(xs) - Len(ys)) : SubSeq(xs, k + 1, k + Len(ys)) = ys

\* C24: in the echo scenario send() resolves, within two ticks of the last
\* byte and never before the whole output has arrived, with complete=true,
\* neither slow nor truncated set, and an output that holds hi
C24_EchoFastComplete ==
  /\ [][\A i \in DOMAIN polls :
         TickStep(i) /\ ResolvesNow(i)
           => /\ EchoArrived
              /\ Delivered(i).complete
              /\ Delivered(i).slow = "undefined"
              /\ Delivered(i).truncated = "undefined"
              /\ Contains(Delivered(i).output, Hi)]_vars
  /\ [](\A i \in DOMAIN polls :
         polls[i].timer /\ EchoArrived
           => /\ SinceLastByte <= PromptStableTicks * PollInterval
              /\ TickDue(polls[i]) \/ CanAdvance)

\* C24 witness: the last piece of the output arrived 300 ms after the
\* submission and send() resolved complete with hi in its output
C24_Witness ==
  \E i \in DOMAIN polls :
    /\ Resolved(polls[i])
    /\ lastOutputTime - polls[i].startTime = EchoWindowMs
    /\ polls[i].results[1].complete
    /\ polls[i].results[1].slow = "undefined"
    /\ polls[i].results[1].output = EchoOutput

(***************************************************************************)
(* The drip scenario: after the submission the channel emits one line that *)
(* is no prompt every 200 ms, the first at most 200 ms after the           *)
(* submission, for as long as the clock runs.                              *)
(***************************************************************************)

DripPeriodMs == 2 * PollInterval

DripConfigs ==
  { [quickTimeout |-> 300, maxTimeout |-> 1200, maxLines |-> LineCap],
    [quickTimeout |-> 300, maxTimeout |-> 1200] }

\* The next line of the drip is due now
DripDue ==
  /\ Len(polls) > 0
  /\ IF polls[1].appended = <<>> THEN now - polls[1].startTime = DripPeriodMs
                                 ELSE now - lastOutputTime = DripPeriodMs

\* The next line arrives: the first at any moment, the others on the period
DripData ==
  /\ Len(polls) > 0
  /\ polls[1].appended = <<>> \/ DripDue
  /\ Data(<<Tag(nData + 1), LF>>)

\* Time passes, but not past a line that is due
DripAdvance == ~DripDue /\ Advance

DripNext ==
  \/ Open
  \/ \E over \in DripConfigs : Send(over)
  \/ DripData
  \/ DripAdvance
  \/ \E i \in 1..MaxSends : Tick(i)

DripSpec == ApiInit /\ [][DripNext]_vars

\* C25: in the drip scenario no tick resolves the poll while elapsed <=
\* maxTimeout; the first tick with elapsed > maxTimeout resolves it with
\* complete=false, and with truncated=true exactly if the lines appended since
\* the submission number more than the truncation cap
C25_DripTimesOut ==
  /\ [][\A i \in DOMAIN polls :
         TickStep(i)
           => /\ ResolvesNow(i) <=> Elapsed(polls[i]) > polls[i].config.maxTimeout
              /\ ResolvesNow(i)
                   => /\ ~Delivered(i).complete
                      /\ Delivered(i).truncated =
                           (IF Len(polls[i].appended) > polls[i].config.maxLines
                              THEN "true" ELSE "undefined")]_vars
  /\ [](\A i \in DOMAIN polls :
         polls[i].timer => Elapsed(polls[i]) <= polls[i].config.maxTimeout + PollInterval)

\* C25 witness: six lines or more dripped in, and the poll resolved at the
\* first tick past maxTimeout, not complete and truncated
C25_Witness ==
  \E i \in DOMAIN polls :
    /\ Resolved(polls[i])
    /\ Len(polls[i].appended) >= 6
    /\ ElapsedAtLastTick(polls[i]) = polls[i].config.maxTimeout + PollInterval
    /\ ~polls[i].results[1].complete
    /\ polls[i].results[1].truncated = "true"

(***************************************************************************)
(* The prompt classifier on its own: detectPrompt is applied to every line *)
(* of a bounded set and to the lines the specification names.              *)
(***************************************************************************)

Downloading ==
  <<"D", "o", "w", "n", "l", "o", "a", "d", "i", "n", "g", " ",
    "p", "a", "c", "k", "a", "g", "e", ".", ".", ".">>

ClassifierChars == {" ", ESC, "[", "0", "m", "$", "a", "%"}

ClassifierLines ==
  UNION {[1..k -> ClassifierChars] : k \in 0..MaxLineLen}
    \cup {UserHostPrompt, Downloading,
          <<ESC, "[", "0", "m">>, <<ESC, "]", "0", ";", "a", BEL>>, <<ESC, "]", "a", ESC, "\\">>,
          <<ESC, "[", "1", "m">> \o UserHostPrompt \o <<ESC, "[", "0", "m">>}

\* A line is about to be classified
ClassifierInit ==
  /\ now = 0
  /\ config \in {Merge(DEFAULT_CONFIG, c) : c \in CtorConfigs}
  /\ shell = FALSE
  /\ channel = "none"
  /\ outputBuffer = <<>>
  /\ outputLines = <<>>
  /\ lastOutputTime = 0
  /\ nData = 0
  /\ arrived = <<>>
  /\ polls = <<>>
  /\ ingested = <<>>
  /\ written = <<>>
  /\ ret \in {[op |-> "line", line |-> line] : line \in ClassifierLines}
  /\ MgrInit

\* detectPrompt(line), the call and its return value
DetectPrompt ==
  /\ ret.op = "line"
  /\ ret' = [op |-> "detectPrompt", line |-> ret.line, result |-> detectPrompt(ret.line)]
  /\ UNCHANGED <<now, config, shell, channel, outputBuffer, outputLines, lastOutputTime, nData, arrived,
                 polls, ingested, written>>
  /\ UNCHANGED mgrVars

ClassifierNext == DetectPrompt

ClassifierSpec == ClassifierInit /\ [][ClassifierNext]_vars

\* Nothing of the line shows on a terminal: it is made of blanks, control
\* characters and whole control sequences (ESC [ parameters letter,
\* ESC ] text BEL, ESC ] text ESC \) only
RECURSIVE Invisible(_)
Invisible(s) ==
  \/ s = <<>>
  \/ s[1] \in Whitespace \cup (ControlChars \ {ESC}) /\ Invisible(Tail(s))
  \/ s[1] = ESC /\ (Len(s) < 2 \/ s[2] \notin {"[", "]"}) /\ Invisible(Tail(s))
  \/ /\ Len(s) >= 3 /\ s[1] = ESC /\ s[2] = "["
     /\ \E k \in 3..Len(s) :
          /\ s[k] \in Letters
          /\ \A j \in 3..(k - 1) : s[j] \in DigitsSemi
          /\ Invisible(SubSeq(s, k + 1, Len(s)))
  \/ /\ Len(s) >= 3 /\ s[1] = ESC /\ s[2] = "]"
     /\ \E k \in 3..Len(s) :
          /\ \/ s[k] = BEL
             \/ s[k] = "\\" /\ k > 3 /\ s[k - 1] = ESC
          /\ \A j \in 3..(k - 1) : s[j] # BEL
          /\ Invisible(SubSeq(s, k + 1, Len(s)))

\* The last character of the line that is no blank and no control character
LastShown(s) ==
  LET shown == SelectSeq(s, LAMBDA c : c \notin Whitespace \cup ControlChars)
  IN IF shown = <<>> THEN "" ELSE shown[Len(shown)]

\* C26: the classifier answers false for a line of which nothing shows once
\* the control sequences are stripped and the blanks trimmed, true for
\* user@host:~$ (plain or wrapped in colour sequences), false for
\* Downloading package..., and true whenever one rule matches: a line whose
\* last shown character is $ with no control sequence in it, or a lone %
C26_Classifier ==
  [][ret'.op = "detectPrompt" =>
       LET line == ret'.line
           answer == ret'.result
       IN /\ Invisible(line) => ~answer
          /\ line = UserHostPrompt => answer
          /\ line = <<ESC, "[", "1", "m">> \o UserHostPrompt \o <<ESC, "[", "0", "m">> => answer
          /\ line = Downloading => ~answer
          /\ (\A k \in 1..Len(line) : line[k] # ESC) /\ LastShown(line) = "$" => answer
          /\ (\A k \in 1..Len(line) : line[k] \in Whitespace \cup {"%"})
               /\ Cardinality({k \in 1..Len(line) : line[k] = "%"}) = 1 => answer
          /\ (\A k \in 1..Len(line) : line[k] \in Letters \cup Whitespace \cup {"."}) => ~answer]_vars

\* C26 witness: the classifier has answered true for user@host:~$
C26_Witness ==
  /\ ret.op = "detectPrompt"
  /\ ret.line = UserHostPrompt
  /\ ret.result = TRUE

\* C27 (as claimed): a tick increments stableCount exactly when no byte
\* arrived since the previous tick (since the submission, for the first tick)
\* and resets it to 0 otherwise, whatever the instant of the byte; so a fast
\* or slow completion is declared only at a tick that saw no new byte
C27_StableCountExact ==
  /\ [][\A i \in DOMAIN polls :
         TickStep(i)
           => polls'[i].stableCount = (IF polls[i].sawByte THEN 0 ELSE polls[i].stableCount + 1)]_vars
  /\ [][\A i \in DOMAIN polls :
         ( /\ TickStep(i) /\ ResolvesNow(i)
           /\ Delivered(i).complete /\ Elapsed(polls[i]) <= polls[i].config.maxTimeout )
           => ~polls[i].sawByte]_vars

\* This step is a data event, an explicit clear, a send() on an open shell
DataStep == nData' # nData
ClearStep == outputLines' = <<>> /\ outputBuffer' = <<>>
SendStep == Len(polls') > Len(polls)

\* C28 (as claimed): the completed lines and the pending partial line change
\* only at a data event and at an explicit clear; send() and the ticks of the
\* poll leave both unchanged
C28_OnlyDataAndClear ==
  /\ [][outputLines' # outputLines \/ outputBuffer' # outputBuffer => DataStep \/ ClearStep]_vars
  /\ [][SendStep \/ (\E i \in DOMAIN polls : TickStep(i))
         => outputLines' = outputLines /\ outputBuffer' = outputBuffer]_vars

\* C28 (amended): the completed lines change only at a data event and at an
\* explicit clear; the pending partial line changes only there and at a
\* send(), which empties it; send() leaves the completed lines unchanged and
\* the ticks of the poll leave both unchanged
C28_SendDropsPending ==
  /\ [][outputLines' # outputLines => DataStep \/ ClearStep]_vars
  /\ [][outputBuffer' # outputBuffer => DataStep \/ ClearStep \/ SendStep]_vars
  /\ [][SendStep => outputLines' = outputLines /\ outputBuffer' = <<>>]_vars
  /\ [][(\E i \in DOMAIN polls : TickStep(i))
         => outputLines' = outputLines /\ outputBuffer' = outputBuffer]_vars

\* C28 witness: a send() found completed lines and a pending partial line,
\* emptied the pending line and kept the completed lines, and its poll has
\* ticked with both unchanged
C28_Witness ==
  \E i \in DOMAIN polls :
    /\ polls[i].dropped # <<>>
    /\ polls[i].startLineCount > 0
    /\ polls[i].lastCheckTime > polls[i].startTime
    /\ polls[i].appended = <<>>
    /\ Len(outputLines) = polls[i].startLineCount
    /\ outputBuffer = <<>>

\* C29: a tick that delivers a truncated Result leaves the completed lines and
\* the pending line as they were, and a read(-1) made right after it returns
\* the whole buffer: every new line of the tick, the ones left out of the
\* truncated output included, and more lines than the Result's output
C29_TruncationKeepsBuffer ==
  [][\A i \in DOMAIN polls :
       TickStep(i) /\ ResolvesNow(i) /\ Delivered(i).truncated = "true"
         => /\ outputLines' = outputLines
            /\ outputBuffer' = outputBuffer
            /\ LET after == read(<<-1>>, <<>>)'
                   newLines == NewLines(polls[i])
               IN /\ after.output = WithPending(JoinLF(outputLines))
                  /\ \A k \in 1..Len(newLines) :
                       SplitLF(after.output)[polls[i].startLineCount + k] = newLines[k]
                  /\ LineCount(after.output) > LineCount(Delivered(i).output)
                  /\ Len(newLines) > polls[i].config.maxLines]_vars

\* C29 witness: a poll resolved truncated with fewer lines in its output than
\* it counted, and the buffer still holds all the lines it counted
C29_Witness ==
  \E i \in DOMAIN polls :
    /\ Resolved(polls[i])
    /\ polls[i].results[1].truncated = "true"
    /\ ~polls[i].cleared
    /\ channel = "open"
    /\ LineCount(polls[i].results[1].output) < polls[i].results[1].totalLines
    /\ Len(outputLines) >= polls[i].startLineCount + polls[i].results[1].totalLines
    /\ read(<<-1>>, <<>>).totalLines >= polls[i].results[1].totalLines

(***************************************************************************)
(* The long session: the first output of the shell fills the completed-    *)
(* line buffer up to maxBufferLines; commands are submitted afterwards.    *)
(***************************************************************************)

\* The chunks of a later data event: a line that ends in >, a plain line, a
\* line and a pending prompt
LongChunks(n) ==
  { <<Tag(n), ">", LF>>,
    <<Tag(n), LF>>,
    <<Tag(n), LF, "$", " ">> }

\* The first data event carries maxBufferLines lines
LongFill == nData = 0 /\ Data(Burst(config.maxBufferLines))

LongNext ==
  \/ Open
  \/ LongFill
  \/ \E text \in LongChunks(nData + 1) : nData > 0 /\ nData < MaxData /\ Data(text)
  \/ \E over \in SendOverrides : Send(over)
  \/ Advance
  \/ \E i \in 1..MaxSends : Tick(i)

LongSpec == Init /\ [][LongNext]_vars

\* The last visible line of the new output of a poll, as section 4.3 has it:
\* the pending partial line, or else the last line completed since the
\* submission, cut after its last carriage return; empty with no new output
LastNewLine(p) ==
  AfterLastCR(IF outputBuffer # <<>> THEN outputBuffer
              ELSE IF p.appended # <<>> THEN p.appended[Len(p.appended)]
              ELSE <<>>)

\* C30 (as claimed): hasPrompt of a tick is the classifier's answer for the
\* last visible line of the new output.  hasPrompt shows in the outcome: a
\* tick resolves complete before maxTimeout only with it, does so whenever it
\* holds at stableCount >= 2, and a timeout Result has complete = hasPrompt
C30_HasPrompt ==
  [][\A i \in DOMAIN polls :
       TickStep(i)
         => LET p == polls[i]
                hasPrompt == detectPrompt(LastNewLine(p))
            IN IF Elapsed(p) > p.config.maxTimeout
                 THEN ResolvesNow(i) /\ Delivered(i).complete = hasPrompt
                 ELSE /\ ResolvesNow(i) /\ Delivered(i).complete => hasPrompt
                      /\ hasPrompt /\ polls'[i].stableCount >= PromptStableTicks
                           => ResolvesNow(i) /\ Delivered(i).complete]_vars

HostA == <<"1", "0", ".", "0", ".", "0", ".", "5">>

\* The Results the polls have delivered
PollResults ==
  UNION {{polls[i].results[k] : k \in 1..Len(polls[i].results)} : i \in DOMAIN polls}

\* C33: every Result of a detection poll has exactly one of complete and
\* waiting set, whatever the outcome, so that a Result with neither flag, as
\* the not-open failure is, comes from no poll
C33_CompleteXorWaiting ==
  /\ \A r \in PollResults : r.complete # (r.waiting = "true")
  /\ ~NotOpenResult.complete /\ NotOpenResult.waiting # "true"

\* C33 witness: a poll ran into the timeout with a prompt on the last line: its
\* Result is complete and slow and does not wait
C33_Witness ==
  \E i \in DOMAIN polls :
    /\ Resolved(polls[i])
    /\ ElapsedAtLastTick(polls[i]) > polls[i].config.maxTimeout
    /\ polls[i].results[1].complete
    /\ polls[i].results[1].slow = "true"
    /\ polls[i].results[1].waiting = "undefined"

\* C34: a Result with complete=true carries slow=true when the tick that
\* produced it ran at an elapsed time above quickTimeout, and no slow flag when
\* it ran at quickTimeout or before
C34_SlowIffLate ==
  \A i \in DOMAIN polls :
    (Resolved(polls[i]) /\ polls[i].results[1].complete)
      => /\ ElapsedAtLastTick(polls[i]) > polls[i].config.quickTimeout
              => polls[i].results[1].slow = "true"
         /\ ElapsedAtLastTick(polls[i]) <= polls[i].config.quickTimeout
              => polls[i].results[1].slow = "undefined"

\* C34 witness: a poll completed at the first tick past quickTimeout, with the
\* slow flag
C34_Witness ==
  \E i \in DOMAIN polls :
    /\ Resolved(polls[i])
    /\ polls[i].results[1].complete
    /\ ElapsedAtLastTick(polls[i]) = polls[i].config.quickTimeout + PollInterval
    /\ polls[i].results[1].slow = "true"

(***************************************************************************)
(* The echo session with a caller that reads without clearing and sends    *)
(* signals while the poll of its send() is running.                        *)
(***************************************************************************)

\* read(lines, undefined, false) with these counts
BystanderReads == {<<>>, <<-1>>}

\* sendSignal() with these names
BystanderSignals == {"SIGINT"}

\* One signal besides the input of the send()
BystanderSignal(signal) ==
  /\ Len(written) <= MaxWrites
  /\ \E k \in DOMAIN written : written[k] = Input \o <<LF>>
  /\ sendSignal(signal)

BystanderNext ==
  \/ EchoNext
  \/ \E lines \in BystanderReads : Read(lines, <<>>, FALSE)
  \/ \E signal \in BystanderSignals : BystanderSignal(signal)

BystanderSpec == Init /\ [][BystanderNext]_vars

\* What a tick reads of the state
TickInputs == <<now, config, polls, outputLines, outputBuffer, lastOutputTime>>

\* C36: read() with clear=false and sendSignal() leave the completed lines, the
\* pending partial line, lastOutputTime and the open flag as they are, and
\* with them all a tick reads; the poll in flight delivers the Result of the
\* undisturbed echo scenario
C36_ReadAndSignalChangeNothing ==
  /\ [][\A lines \in BystanderReads, signal \in BystanderSignals :
          (Read(lines, <<>>, FALSE) \/ sendSignal(signal))
            => /\ UNCHANGED <<outputLines, outputBuffer, lastOutputTime, shell>>
               /\ UNCHANGED TickInputs]_vars
  /\ [][\A i \in DOMAIN polls :
          TickStep(i) /\ ResolvesNow(i)
            => /\ Delivered(i).output = EchoOutput
               /\ Delivered(i).complete
               /\ Delivered(i).slow = "undefined"
               /\ Delivered(i).truncated = "undefined"
               /\ Delivered(i).waiting = "undefined"]_vars

\* C36 witness: the signal was written while the poll was in flight, after a
\* read that kept the buffers, and output is buffered
C36_Witness ==
  /\ Len(polls) = 1 /\ polls[1].timer
  /\ ret.op = "sendSignal" /\ ret.result = TRUE
  /\ written = <<Input \o <<LF>>, <<ETX>>>>
  /\ outputLines # <<>>
  /\ outputBuffer # <<>>

\* C37: when read(clear=true) ran while the poll was in flight, the completed
\* lines that arrived after the clear are all in the output of the poll, in
\* their order, unless the Result is truncated
C37_LinesAfterClearDelivered ==
  [][\A i \in DOMAIN polls :
       (/\ TickStep(i) /\ ResolvesNow(i)
        /\ polls[i].cleared
        /\ Delivered(i).truncated = "undefined")
         => Contains(SplitLF(Delivered(i).output), arrived)]_vars

(***************************************************************************)
(* A caller that does not await: a send() is issued while the poll of an   *)
(* earlier send() is running.                                              *)
(***************************************************************************)

\* One send() more than a caller that awaits would have issued
OverlapSends == MaxSends + 1

OverlapConfigs == {[quickTimeout |-> 200, maxTimeout |-> 400]}

\* The data events of the session: a prompt without its line end
OverlapChunks(n) == {<<"$", " ">>}

\* send() before the polls of the earlier calls have all resolved
OverlapSend(over) ==
  /\ Len(polls) < OverlapSends
  /\ polls = <<>> \/ \E i \in DOMAIN polls : polls[i].timer
  /\ send(over)

OverlapNext ==
  \/ Open
  \/ Advance
  \/ \E text \in OverlapChunks(nData + 1) : nData < MaxData /\ Data(text)
  \/ \E over \in OverlapConfigs : OverlapSend(over)
  \/ \E i \in 1..OverlapSends : Tick(i)

OverlapSpec == Init /\ [][OverlapNext]_vars

\* Polls i and j were in flight at the same time
Overlapped(i, j) ==
  /\ i # j
  /\ polls[i].startTime <= polls[j].startTime
  /\ polls[i].timer \/ polls[j].startTime < polls[i].lastCheckTime

\* C38: with a send() issued while the poll of an earlier one is running, each
\* input is written to the channel exactly once, each poll resolves exactly
\* once (at the latest at its first tick past maxTimeout), and the tick that
\* resolves one poll leaves the other as it is
C38_OverlappingSends ==
  /\ [](/\ Len(written) = Len(polls)
        /\ \A k \in DOMAIN written : written[k] = Input \o <<LF>>
        /\ \A i \in DOMAIN polls :
             /\ Len(polls[i].results) <= 1
             /\ polls[i].timer <=> polls[i].results = <<>>
             /\ polls[i].timer => ElapsedAtLastTick(polls[i]) <= polls[i].config.maxTimeout)
  /\ [][\A i \in DOMAIN polls :
          TickStep(i) => \A j \in DOMAIN polls \ {i} : polls'[j] = polls[j]]_vars
  /\ [][\A i \in DOMAIN polls : Resolved(polls[i]) => polls'[i] = polls[i]]_vars

\* C38 witness: the second send() was issued while the first poll was running;
\* the first poll has resolved and the second is still running
C38_Witness ==
  /\ Len(polls) = 2
  /\ polls[2].startTime > polls[1].startTime
  /\ Overlapped(1, 2)
  /\ Resolved(polls[1])
  /\ polls[2].timer
  /\ polls[2].lastCheckTime > polls[1].lastCheckTime

(***************************************************************************)
(* Sanitizer (sanitizer.ts): the registered values, kept in the order of   *)
(* their registration as a JavaScript Set keeps them, and sanitize().      *)
(***************************************************************************)

\* Sanitizer.addSensitiveValue: the default minLength
MinSensitiveLength == 3

\* sanitize() replaces a registered value by this text
RedactedMarker == <<"[", "R", "E", "D", "A", "C", "T", "E", "D", "]">>

\* sanitize() replaces an IPv4 address by this text
IpMarker == <<"[", "I", "P", "]">>

Loopback == <<"1", "2", "7", ".", "0", ".", "0", ".", "1">>

\* WHITELISTED_IPS, the IPv4 addresses of it that the texts hold
WhitelistedIps == {Loopback}

\* The elements of a sequence
Range(seq) == {seq[i] : i \in DOMAIN seq}

\* Sanitizer.addSensitiveValue(value) on the registered values cur
addSensitiveValue(cur, value) ==
  IF value # <<>> /\ Len(value) >= MinSensitiveLength /\ value \notin Range(cur)
    THEN Append(cur, value)
    ELSE cur

\* Sanitizer.addSensitiveValues(values) on the registered values cur
RECURSIVE addSensitiveValues(_, _)
addSensitiveValues(cur, values) ==
  IF values = <<>> THEN cur
  ELSE addSensitiveValues(addSensitiveValue(cur, Head(values)), Tail(values))

\* xs starts with ys
StartsWith(xs, ys) == Len(ys) <= Len(xs) /\ SubSeq(xs, 1, Len(ys)) = ys

\* text.replace(new RegExp(escaped, "g"), marker): the occurrences of value
\* from the left, none overlapping the one before
RECURSIVE ReplaceAll(_, _, _)
ReplaceAll(text, value, marker) ==
  IF text = <<>> THEN <<>>
  ELSE IF StartsWith(text, value)
    THEN marker \o ReplaceAll(SubSeq(text, Len(value) + 1, Len(text)), value, marker)
    ELSE <<Head(text)>> \o ReplaceAll(Tail(text), value, marker)

\* The longest length among the values
RECURSIVE MaxLength(_)
MaxLength(values) ==
  IF values = <<>> THEN 0
  ELSE LET m == MaxLength(Tail(values))
       IN  IF Len(Head(values)) > m THEN Len(Head(values)) ELSE m

\* The values of length n and less, the longer ones first
RECURSIVE ByLengthFrom(_, _)
ByLengthFrom(values, n) ==
  IF n = 0 THEN <<>>
  ELSE SelectSeq(values, LAMBDA v : Len(v) = n) \o ByLengthFrom(values, n - 1)

\* sortedValues of sanitize(): filter(v.length >= 3).sort((a, b) => b.length -
\* a.length), a stable sort
SortedValues(values) ==
  LET kept == SelectSeq(values, LAMBDA v : Len(v) >= 3)
  IN  ByLengthFrom(kept, MaxLength(kept))

\* The loop over sortedValues
RECURSIVE ReplaceValues(_, _)
ReplaceValues(text, values) ==
  IF values = <<>> THEN text
  ELSE ReplaceValues(ReplaceAll(text, Head(values), RedactedMarker), Tail(values))

Digit == {"0", "1", "2", "5", "7"}

\* \w of a regular expression, on the characters of the texts
WordChar(c) == c \notin {" ", ".", "[", "]", "~", "/"}

\* The length of the run of digits that text starts with
RECURSIVE DigitRun(_)
DigitRun(text) ==
  IF text = <<>> \/ Head(text) \notin Digit THEN 0 ELSE 1 + DigitRun(Tail(text))

\* The rest of text after n characters
Drop(text, n) == SubSeq(text, n + 1, Len(text))

\* \d{1,3}\. at the start of text: its length, 0 for no match
OctetDot(text) ==
  LET r == DigitRun(text)
  IN  IF r \in 1..3 /\ Len(text) > r /\ text[r + 1] = "." THEN r + 1 ELSE 0

\* \d{1,3}\b at the start of text: its length, 0 for no match
LastOctet(text) ==
  LET r == DigitRun(text)
  IN  IF r \in 1..3 /\ (Len(text) = r \/ ~WordChar(text[r + 1])) THEN r ELSE 0

\* /\b(\d{1,3}\.\d{1,3}\.\d{1,3}\.\d{1,3})\b/ at the start of text, which
\* follows the character prev (<<>> at the start): the length of the match, 0
\* for none
Ipv4Match(prev, text) ==
  IF prev # <<>> /\ WordChar(prev[1]) THEN 0
  ELSE LET a == OctetDot(text)
           b == IF a = 0 THEN 0 ELSE OctetDot(Drop(text, a))
           c == IF b = 0 THEN 0 ELSE OctetDot(Drop(text, a + b))
           d == IF c = 0 THEN 0 ELSE LastOctet(Drop(text, a + b + c))
       IN  IF d = 0 THEN 0 ELSE a + b + c + d

\* result.replace(pattern, match => whitelist.has(match) ? match : "[IP]") for
\* the IPv4 pattern
RECURSIVE ReplaceIpv4(_, _)
ReplaceIpv4(prev, text) ==
  IF text = <<>> THEN <<>>
  ELSE LET n == Ipv4Match(prev, text)
       IN  IF n = 0
             THEN <<Head(text)>> \o ReplaceIpv4(<<Head(text)>>, Tail(text))
             ELSE (IF SubSeq(text, 1, n) \in WhitelistedIps THEN SubSeq(text, 1, n) ELSE IpMarker)
                    \o ReplaceIpv4(<<text[n]>>, Drop(text, n))

\* The loop over the patterns: the IPv6 and MAC patterns need a colon or a
\* dash, which the texts do not hold, and leave them as they are
ReplacePatterns(text) == ReplaceIpv4(<<>>, text)

\* Sanitizer.sanitize(text) with the registered values
sanitize(values, text) ==
  IF text = <<>> THEN text
  ELSE ReplacePatterns(ReplaceValues(text, SortedValues(values)))

\* The values handed to addSensitiveValue
Ab == <<"a", "b">>
Abc == <<"a", "b", "c">>
Bcd == <<"b", "c", "d">>
Abcd == <<"a", "b", "c", "d">>
Ted == <<"T", "E", "D">>
SanitizerValues == {Ab, Abc, Bcd, Abcd, Ted, HostA}

\* The texts handed to sanitize() are made of these
SanitizerPieces == SanitizerValues \cup {<<" ">>, <<"x">>, <<"1">>, <<".">>, Loopback}

\* at most this many pieces make a text
MaxPieces == 2
\* at most this many values are registered
MaxValues == 3

RECURSIVE SanitizerTexts(_)
SanitizerTexts(n) ==
  IF n = 0 THEN {<<>>}
  ELSE LET shorter == SanitizerTexts(n - 1)
       IN  shorter \cup {t \o piece : t \in shorter, piece \in SanitizerPieces}

\* addSensitiveValue(value)
AddSensitiveValue(value) ==
  /\ Len(sensitiveValues) < MaxValues
  /\ sensitiveValues' = addSensitiveValue(sensitiveValues, value)
  /\ ret' = NoCall
  /\ UNCHANGED <<now, config, shell, channel, outputBuffer, outputLines, lastOutputTime, nData,
                 arrived, polls, ingested, written,
                 oldChannels, client, currentServer, isConnected, isLocalConnection, clients>>

\* clearSensitiveValues()
ClearSensitiveValues ==
  /\ sensitiveValues' = <<>>
  /\ ret' = NoCall
  /\ UNCHANGED <<now, config, shell, channel, outputBuffer, outputLines, lastOutputTime, nData,
                 arrived, polls, ingested, written,
                 oldChannels, client, currentServer, isConnected, isLocalConnection, clients>>

\* sanitize(text)
Sanitize(text) ==
  /\ ret' = [op |-> "sanitize", text |-> text, out |-> sanitize(sensitiveValues, text)]
  /\ UNCHANGED <<now, config, shell, channel, outputBuffer, outputLines, lastOutputTime, nData,
                 arrived, polls, ingested, written>>
  /\ UNCHANGED mgrVars

SanitizerNext ==
  \/ \E value \in SanitizerValues : AddSensitiveValue(value)
  \/ ClearSensitiveValues
  \/ \E text \in SanitizerTexts(MaxPieces) : Sanitize(text)

SanitizerSpec == Init /\ [][SanitizerNext]_vars

\* out is text with occurrences of the values replaced by [REDACTED] and
\* addresses replaced by [IP], every other character kept
RECURSIVE Stands(_, _, _)
Stands(values, text, out) ==
  \/ text = <<>> /\ out = <<>>
  \/ /\ text # <<>> /\ out # <<>>
     /\ Head(text) = Head(out)
     /\ Stands(values, Tail(text), Tail(out))
  \/ /\ StartsWith(out, RedactedMarker)
     /\ \E v \in values :
          StartsWith(text, v) /\ Stands(values, Drop(text, Len(v)), Drop(out, Len(RedactedMarker)))
  \/ /\ StartsWith(out, IpMarker)
     /\ \E n \in 7..15 :
          /\ n <= Len(text)
          /\ \A i \in 1..n : text[i] \in Digit \cup {"."}
          /\ Stands(values, Drop(text, n), Drop(out, Len(IpMarker)))

\* C32: sanitize replaces every occurrence of every registered value of three
\* characters or more by [REDACTED], the longer values first; a value of fewer
\* than three characters is never registered nor replaced; with the registered
\* values cleared the built-in patterns still apply
C32_Sanitize ==
  /\ \A i \in DOMAIN sensitiveValues : Len(sensitiveValues[i]) >= 3
  /\ ret.op = "sanitize" =>
       /\ Stands(Range(sensitiveValues), ret.text, ret.out)
       /\ \A v \in Range(sensitiveValues) :
            Contains(ret.out, v) => Contains(RedactedMarker, v)
       /\ (Abcd \in Range(sensitiveValues) /\ ret.text = Abcd) => ret.out = RedactedMarker
       /\ ret.text = Ab => ret.out = Ab
       /\ (sensitiveValues = <<>> /\ ret.text = HostA) => ret.out = IpMarker

(***************************************************************************)
(* SSHManager (ssh-manager.ts): connect, disconnect and the events of the  *)
(* ssh2 Clients, on top of the one ShellManager.  The calls of connect()   *)
(* and disconnect() are awaited one after the other; the events of the     *)
(* Clients and of the streams arrive whenever they arrive.                 *)
(***************************************************************************)

ServerA ==
  [ name |-> "a", host |-> HostA, username |-> <<"a", "b">>, password |-> <<"p", "w", "d", "1">>,
    passphrase |-> <<>>, privateKeyPath |-> <<>>, proxyHost |-> <<>>, proxyPassword |-> <<>> ]
ServerB ==
  [ name |-> "b", host |-> <<"h", "o", "s", "t", "b">>, username |-> <<"r", "o", "o", "t">>,
    password |-> <<>>, passphrase |-> <<"p", "h", "r">>, privateKeyPath |-> <<"~", "/", "k">>,
    proxyHost |-> <<"p", "x", "y">>, proxyPassword |-> <<"p", "p">> ]

\* The configurations connect() is called with
RemoteServers == {ServerA, ServerB}

LOCAL_SERVER ==
  [ name |-> "local", host |-> <<"l", "o", "c", "a", "l", "h", "o", "s", "t">>,
    username |-> <<"l", "o", "c", "a", "l">>, password |-> <<>>, passphrase |-> <<>>,
    privateKeyPath |-> <<>>, proxyHost |-> <<>>, proxyPassword |-> <<>> ]

\* registerSensitiveInfo(config): the values handed to the sanitizer
SensitiveInfo(cfg) ==
  <<cfg.host, cfg.password, cfg.passphrase, cfg.username, cfg.privateKeyPath,
    cfg.proxyHost, cfg.proxyPassword>>

\* A stream that has not reported its close
Live(ch) == ch \in {"open", "ending", "errored", "lost"}

\* The Client whose connection carries the current stream; 0 for a local PTY
Owner == IF \E k \in DOMAIN clients : clients[k].owns
           THEN CHOOSE k \in DOMAIN clients : clients[k].owns
           ELSE 0

\* this.shell = stream over an earlier stream in status ch: the earlier stream
\* is not referenced any more, its handlers stay registered
Replace(ch) ==
  IF Live(ch) THEN Append(oldChannels, [status |-> ch, owner |-> Owner]) ELSE oldChannels

\* The status of the current stream after the close() of disconnect()
AfterClose == IF isConnected /\ shell THEN "ending" ELSE channel

\* this.client.end() in disconnect()
EndClient(cs) ==
  IF client # 0 /\ isConnected /\ ~isLocalConnection
    THEN [cs EXCEPT ![client].state = "ended"]
    ELSE cs

\* cleanup(), but for this.client
Cleanup ==
  /\ isConnected' = FALSE
  /\ isLocalConnection' = FALSE
  /\ currentServer' = <<>>
  /\ sensitiveValues' = <<>>

\* disconnect()
Disconnect ==
  /\ CloseShell
  /\ clients' = EndClient(clients)
  /\ Cleanup
  /\ client' = 0
  /\ UNCHANGED oldChannels

\* No connect() is waiting for its Client
ConnectSerialized == \A k \in DOMAIN clients : clients[k].state # "connecting"

\* connect(config) for a remote server, up to client.connect(): a connected
\* manager disconnects first; the promise waits for the events of the Client
ConnectSSH(cfg) ==
  /\ ConnectSerialized
  /\ Len(clients) < MaxClients
  /\ client' = Len(clients) + 1
  /\ clients' = Append(EndClient(clients), [config |-> cfg, state |-> "connecting", owns |-> FALSE])
  /\ IF isConnected
       THEN CloseShell /\ Cleanup
       ELSE /\ ret' = NoCall
            /\ UNCHANGED <<now, config, shell, channel, outputBuffer, outputLines, lastOutputTime,
                           nData, arrived, polls, ingested, written,
                           isConnected, isLocalConnection, currentServer, sensitiveValues>>
  /\ UNCHANGED oldChannels

\* connect(LOCAL_SERVER): a connected manager disconnects first; openLocal()
\* stores the stream of a new PTY
ConnectLocal ==
  /\ ConnectSerialized
  /\ Len(oldChannels) < MaxOldChannels
  /\ StoreStream
  /\ oldChannels' = Replace(AfterClose)
  /\ clients' = [k \in DOMAIN clients |-> [EndClient(clients)[k] EXCEPT !.owns = FALSE]]
  /\ client' = IF isConnected THEN 0 ELSE client
  /\ sensitiveValues' = IF isConnected THEN <<>> ELSE sensitiveValues
  /\ isConnected' = TRUE
  /\ isLocalConnection' = TRUE
  /\ currentServer' = <<LOCAL_SERVER>>

\* client.on("ready", ...) of Client k: the status is set, the values of its
\* config are registered, and the shell is opened on this.client; with
\* this.client null the open throws and cleanup() runs
ClientReady(k) ==
  /\ k \in DOMAIN clients
  /\ clients[k].state = "connecting"
  /\ IF client # 0
       THEN /\ Len(oldChannels) < MaxOldChannels
            /\ StoreStream
            /\ oldChannels' = Replace(channel)
            /\ clients' = [j \in DOMAIN clients |->
                             [clients[j] EXCEPT !.owns = (j = client),
                                                !.state = IF j = k THEN "ready" ELSE @]]
            /\ isConnected' = TRUE
            /\ isLocalConnection' = FALSE
            /\ currentServer' = <<clients[k].config>>
            /\ sensitiveValues' = addSensitiveValues(sensitiveValues, SensitiveInfo(clients[k].config))
            /\ UNCHANGED client
       ELSE /\ clients' = [clients EXCEPT ![k].state = "ready"]
            /\ Cleanup
            /\ client' = 0
            /\ ret' = NoCall
            /\ UNCHANGED <<now, config, shell, channel, outputBuffer, outputLines, lastOutputTime,
                           nData, arrived, polls, ingested, written, oldChannels>>

\* The stream of Client k, when it is the current one, goes with its connection
LoseStream(k) == IF clients[k].owns /\ channel \in {"open", "ending", "errored"} THEN "lost" ELSE channel

\* and so do the earlier streams of Client k
LoseOldStreams(k) ==
  [i \in DOMAIN oldChannels |->
     IF oldChannels[i].owner = k THEN [oldChannels[i] EXCEPT !.status = "lost"] ELSE oldChannels[i]]

\* client.on("error", ...) of Client k
ClientError(k) ==
  /\ k \in DOMAIN clients
  /\ clients[k].state \in {"connecting", "ready"}
  /\ clients' = [clients EXCEPT ![k].state = "failed"]
  /\ channel' = LoseStream(k)
  /\ oldChannels' = LoseOldStreams(k)
  /\ Cleanup
  /\ client' = 0
  /\ ret' = NoCall
  /\ UNCHANGED <<now, config, shell, outputBuffer, outputLines, lastOutputTime,
                 nData, arrived, polls, ingested, written>>

\* client.on("close", ...) of Client k
ClientClose(k) ==
  /\ k \in DOMAIN clients
  /\ clients[k].state \in {"connecting", "ready", "ended", "failed"}
  /\ clients' = [clients EXCEPT ![k].state = "closed"]
  /\ channel' = LoseStream(k)
  /\ oldChannels' = LoseOldStreams(k)
  /\ Cleanup
  /\ client' = 0
  /\ ret' = NoCall
  /\ UNCHANGED <<now, config, shell, outputBuffer, outputLines, lastOutputTime,
                 nData, arrived, polls, ingested, written>>

\* A sequence without its i-th element
Without(seq, i) == SubSeq(seq, 1, i - 1) \o SubSeq(seq, i + 1, Len(seq))

\* The close handler that an earlier stream still carries
OldChannelClose(i) ==
  /\ i \in DOMAIN oldChannels
  /\ oldChannels' = Without(oldChannels, i)
  /\ shell' = FALSE
  /\ ret' = NoCall
  /\ UNCHANGED <<now, config, channel, outputBuffer, outputLines, lastOutputTime, nData, arrived,
                 polls, ingested, written,
                 client, currentServer, isConnected, isLocalConnection, clients, sensitiveValues>>

\* The data handler that an earlier stream still carries
OldChannelData(i, text) ==
  /\ i \in DOMAIN oldChannels
  /\ oldChannels[i].status \in {"open", "ending"}
  /\ OnData(text)
  /\ UNCHANGED mgrVars

ConnNext ==
  \/ \E cfg \in RemoteServers : ConnectSSH(cfg)
  \/ ConnectLocal
  \/ Disconnect
  \/ \E k \in 1..MaxClients : ClientReady(k)
  \/ \E k \in 1..MaxClients : ClientError(k)
  \/ \E k \in 1..MaxClients : ClientClose(k)
  \/ nData < MaxData /\ Data(<<Tag(nData + 1), LF>>)
  \/ \E i \in 1..MaxOldChannels : nData < MaxData /\ OldChannelData(i, <<Tag(nData + 1), LF>>)
  \/ ChannelClose
  \/ \E i \in 1..MaxOldChannels : OldChannelClose(i)

ConnSpec == Init /\ [][ConnNext]_vars

\* A call of connect()
ConnectStep == ConnectLocal \/ \E cfg \in RemoteServers : ConnectSSH(cfg)

\* An earlier stream that nobody ended and whose connection is still up: a
\* second shell session besides the current one
Abandoned(ch) ==
  /\ ch.status = "open"
  /\ ch.owner = 0 \/ clients[ch.owner].state = "ready"

\* connect() on a connected manager has ended the Client of the connection,
\* ended its stream and emptied the buffers
DisconnectedFirst ==
  /\ (client # 0 /\ ~isLocalConnection) => clients'[client].state = "ended"
  /\ shell =>
       \/ channel' = "ending"
       \/ /\ oldChannels' # <<>>
          /\ oldChannels'[Len(oldChannels')].status = "ending"
  /\ outputLines' = <<>>
  /\ outputBuffer' = <<>>

\* connect() on a connected manager disconnects first, and after disconnect()
\* the status is not connected and the shell is not open
ConnectDisconnectsFirst ==
  [][ /\ (isConnected /\ ConnectStep) => DisconnectedFirst
      /\ Disconnect => (~isConnected' /\ ~shell') ]_vars

\* C31: at most one shell session is open at any time: connect() on a connected
\* manager disconnects first, after disconnect() the status is not connected
\* and the shell is not open, and no stream is replaced while it is open
C31_OneSession ==
  /\ ConnectDisconnectsFirst
  /\ [](\A i \in DOMAIN oldChannels : ~Abandoned(oldChannels[i]))

\* C35: a session that has been opened stays open until its own stream closes
\* or close() is called: the close event of an earlier stream does not close
\* it, and the data event of an earlier stream adds nothing to its buffers
C35_StaleEventsIgnored ==
  [][\A i \in 1..MaxOldChannels :
       /\ OldChannelClose(i) => shell' = shell
       /\ \A n \in 1..MaxData :
            OldChannelData(i, <<Tag(n), LF>>)
              => (outputLines' = outputLines /\ outputBuffer' = outputBuffer)]_vars

\* C39: while a remote connection is established, the close or error event of
\* an earlier Client, one that a later connect() has replaced, leaves the
\* connected status, the current server and the registered values in force
C39_StaleClientEventsIgnored ==
  [][\A k \in DOMAIN clients :
       (/\ isConnected /\ ~isLocalConnection
        /\ k # client
        /\ ClientClose(k) \/ ClientError(k))
         => /\ isConnected'
            /\ currentServer' = currentServer
            /\ sensitiveValues' = sensitiveValues]_vars

====
